---- MODULE Spec2Model ----
(***************************************************************************)
(* A model of the crypto-pet mood / evolution / cooldown core.             *)
(*                                                                         *)
(* Pure functions (calculateMood, checkEvolution) are operators applied    *)
(* by one-step specifications whose Init enumerates the inputs.  The       *)
(* stateful part (App component, useEvolutionCheck, useSchadenfreude,      *)
(* cooldownManager, storage) is a state machine with one action per        *)
(* handler; every action runs the React effects the handler causes.        *)
(***************************************************************************)
EXTENDS Integers, Sequences, FiniteSets, TLC

VARIABLES
    \* ---- pure-function harness ----
    moodIn,            \* arguments of calculateMood, or NoArgs
    moodOut,           \* its result, or NoResult
    evoIn,             \* argument of checkEvolution, or NoArgs
    evoOut,            \* its result, or NoResult
    callIn,            \* arguments of the service or utility call made, or NoArgs
    callOut,           \* its result, or NoResult
    \* ---- React state of App ----
    petState,          \* [mood, evolutionStage]
    moodLevel,
    ageSeconds,
    interactionCount,
    schadenfreudeCount,
    comedyAttempts,
    comedySuccesses,
    manualEvolutionOverride,
    priceData,         \* useCryptoUpdates' priceData: [has, change24h]
    \* ---- refs ----
    prevPriceChangeRef,
    evoRefs,           \* useEvolutionCheck: [hasEvolved, lastEvolutionStage]
    \* ---- localStorage ----
    store,             \* the record under 'cryptoPetState', or NoRecord
    cooldowns,         \* 'cooldown_<featureId>' entries: featureId -> expiresAt
    \* ---- environment ----
    now,               \* Date.now(), in ms
    pendingCheer,      \* triggerSchadenfreude invocations awaiting findWorsePerformer
    \* ---- the comedy judge ----
    lastRequestTime,   \* GeminiService.lastRequestTime
    pendingJokes,      \* rateJoke calls awaiting the response of the AI service
    jokeResult,        \* how handleComedySubmit's submitJoke ended last
    jokeSettled,       \* the submission that settled last
    lastRatedAt,       \* the latest timestamp of a rating the judge has returned, or 0
    \* ---- cacheManager and the price and weather services ----
    cache,             \* CacheManager.cache: key -> entry
    pendingRequests,   \* pendingRequests of CryptoService and of WeatherService: key -> promise
    promises,          \* the promises of performFetch / fetchWeatherFromAPI calls
    callers,           \* the calls of fetchPrice / fetchWeather made so far and what they got
    cooldownSet,       \* per feature id, the time and duration of the last setCooldown
    cacheSet,          \* per key, the value, ttl and time of the last CacheManager.set
    generatedIds,      \* the number of generateId calls made so far
    petIdentity,       \* the id and createdAt the first load or save of the pet yielded
    cryptoUpdates,     \* useCryptoUpdates: its props, state, mountedRef and fetches in flight
    \* ---- observation of the last step ----
    op,                \* the operation that ran last
    fires,             \* stages for which onEvolution was invoked, in order
    entered,           \* stage values the pet newly took, seen by the enabled hook
    unseen,            \* the stage changed while the hook was disabled
    callsSinceStageChange, \* onEvolution calls since evolutionStage last changed
    cheerResult,       \* what triggerSchadenfreude returned last
    cheerSettled       \* the invocation that settled last

fnVars   == <<moodIn, moodOut, evoIn, evoOut, callIn, callOut>>
memVars  == <<petState, moodLevel, ageSeconds, interactionCount, schadenfreudeCount,
              comedyAttempts, comedySuccesses, manualEvolutionOverride, priceData, prevPriceChangeRef, evoRefs>>
diskVars == <<store, cooldowns>>
envVars  == <<now, pendingCheer>>
obsVars  == <<op, fires, entered, unseen, callsSinceStageChange, cheerResult, cheerSettled>>
judgeVars == <<lastRequestTime, pendingJokes, jokeResult, jokeSettled, lastRatedAt>>
svcVars  == <<cache, pendingRequests, promises, callers, cooldownSet, cacheSet,
              generatedIds, petIdentity, cryptoUpdates>>
appVars  == <<memVars, diskVars, envVars, obsVars, judgeVars, svcVars>>
vars     == <<fnVars, appVars>>

(***************************************************************************)
(* Bounds of the model                                                     *)
(***************************************************************************)
HalfSteps   == 2     \* a number is kept in units of 1/(2*HalfSteps)
MaxPriceAbs == 6     \* priceChange24h ranges over [-MaxPriceAbs, MaxPriceAbs]
MaxModAbs   == 3     \* weatherModifier ranges over [-MaxModAbs, MaxModAbs]
Margin      == 2     \* ages sampled within Margin of each age threshold
MaxIc       == 26    \* interaction counts sampled in 0..MaxIc

Q == 2 * HalfSteps   \* units per 1.0

\* Date.now() when the App is first mounted: far more than any duration after 0
Epoch == 120000

NoArgs   == [none |-> TRUE]
NoResult == [none |-> TRUE]

(***************************************************************************)
(* JavaScript numbers: a finite value (in units of 1/Q), NaN, +Infinity,   *)
(* -Infinity, or a value that is not of type number ("undef").             *)
(***************************************************************************)
Fin(v)  == [k |-> "fin", v |-> v]
NaN     == [k |-> "nan", v |-> 0]
PosInf  == [k |-> "pinf", v |-> 0]
NegInf  == [k |-> "ninf", v |-> 0]
Undef   == [k |-> "undef", v |-> 0]
Whole(n) == Fin(n * Q)

IsFinite(x) == x.k = "fin"

\* a > b on JS numbers (every comparison with NaN is false)
NumGT(a, b) ==
    CASE a.k = "nan" \/ b.k = "nan" -> FALSE
      [] a.k = "pinf" -> b.k # "pinf"
      [] a.k = "ninf" -> FALSE
      [] b.k = "pinf" -> FALSE
      [] b.k = "ninf" -> TRUE
      [] OTHER -> a.v > b.v

NumEQ(a, b) ==
    CASE a.k = "nan" \/ b.k = "nan" -> FALSE
      [] OTHER -> a.k = b.k /\ a.v = b.v

NumGE(a, b) == NumGT(a, b) \/ NumEQ(a, b)
NumLT(a, b) == NumGT(b, a)
NumLE(a, b) == NumGE(b, a)

\* a + b where a is finite
NumAdd(a, b) ==
    CASE b.k = "fin" -> Fin(a.v + b.v)
      [] OTHER -> b

\* Math.round: the nearest integer, a half rounding towards +Infinity
MathRoundHalfDown(x) ==
    IF x.k = "fin" THEN Fin((-(((-x.v) + (Q \div 2)) \div Q)) * Q) ELSE x

MathRound(x) ==
    IF x.k = "fin" THEN Fin(((x.v + (Q \div 2)) \div Q) * Q) ELSE x

\* Math.min / Math.max of two numbers (NaN if either is NaN)
MathMin(a, b) ==
    CASE a.k = "nan" \/ b.k = "nan" -> NaN
      [] NumLT(b, a) -> b
      [] OTHER -> a

MathMax(a, b) ==
    CASE a.k = "nan" \/ b.k = "nan" -> NaN
      [] NumGT(b, a) -> b
      [] OTHER -> a

(***************************************************************************)
(* calculateMood                                                           *)
(***************************************************************************)
MoodStates == {"happy", "neutral", "sad"}

\* the mood state of a final level, as calculateMood derives it
MoodStateOfNum(finalMood) ==
    IF NumGE(finalMood, Whole(4)) THEN "happy"
    ELSE IF NumLE(finalMood, Whole(2)) THEN "sad"
    ELSE "neutral"

BaseMood(p) ==
    IF NumGT(p, Whole(5)) THEN Whole(5)
    ELSE IF NumGT(p, Whole(0)) /\ NumLE(p, Whole(5)) THEN Whole(4)
    ELSE IF NumEQ(p, Whole(0)) THEN Whole(3)
    ELSE IF NumGE(p, Whole(-5)) /\ NumLT(p, Whole(0)) THEN Whole(2)
    ELSE Whole(1)

calculateMood(priceChange24h, weatherModifierArg) ==
    LET weatherModifier ==
            IF weatherModifierArg.k = "undef" THEN Whole(0) ELSE weatherModifierArg
    IN  IF priceChange24h.k = "undef" \/ priceChange24h.k = "nan"
        THEN [moodLevel |-> Whole(3), moodState |-> "neutral"]
        ELSE LET rounded   == MathRound(NumAdd(BaseMood(priceChange24h), weatherModifier))
                 finalMood == MathMax(Whole(1), MathMin(Whole(5), rounded))
             IN  [moodLevel |-> finalMood, moodState |-> MoodStateOfNum(finalMood)]

(***************************************************************************)
(* checkEvolution                                                          *)
(***************************************************************************)
BabyToAdultAge              == 300
BabyToAdultInteractions     == 10
AdultToLegendaryAge         == 900
AdultToLegendaryInteractions == 25

StageNamesStr == {"baby", "adult", "legendary"}

\* petState.evolutionStage is a number or a string
NumStage(n) == [t |-> "num", n |-> n, s |-> ""]
StrStage(s) == [t |-> "str", n |-> 0, s |-> s]

\* an optional number (ageSeconds?, interactionCount?)
Some(v)   == [def |-> TRUE, v |-> v]
Undefined == [def |-> FALSE, v |-> 0]

stageMap(n) ==
    CASE n = 1 -> "baby"
      [] n = 2 -> "adult"
      [] n = 3 -> "legendary"
      [] OTHER -> "baby"

EvoResult(se, ns, r, cs) ==
    [shouldEvolve |-> se, nextStage |-> ns, reason |-> r, currentStage |-> cs]

\* checkEvolution without the validation of its input: an undefined number
\* compares false with every threshold
checkEvolutionUnvalidated(pet) ==
    LET evolutionStage ==
            IF pet.evolutionStage.t = "num"
            THEN stageMap(pet.evolutionStage.n)
            ELSE pet.evolutionStage.s
        age == pet.ageSeconds
        ic  == pet.interactionCount
        ageMet(threshold) == age.def /\ age.v >= threshold
        icMet(threshold)  == ic.def /\ ic.v >= threshold
    IN  IF evolutionStage = "legendary"
        THEN EvoResult(FALSE, "null", "null", "legendary")
        ELSE IF evolutionStage = "baby"
                /\ (ageMet(BabyToAdultAge) \/ icMet(BabyToAdultInteractions))
        THEN EvoResult(TRUE, "adult",
                       IF ageMet(BabyToAdultAge) THEN "age" ELSE "interactions", "baby")
        ELSE IF evolutionStage = "adult"
                /\ (ageMet(AdultToLegendaryAge) \/ icMet(AdultToLegendaryInteractions))
        THEN EvoResult(TRUE, "legendary",
                       IF ageMet(AdultToLegendaryAge) THEN "age" ELSE "interactions", "adult")
        ELSE EvoResult(FALSE, "null", "null", evolutionStage)

\* checkEvolution sending a baby that is past the adult-to-legendary threshold
\* straight to legendary
checkEvolutionSkipsAdult(pet) ==
    LET evolutionStage ==
            IF pet.evolutionStage.t = "num"
            THEN stageMap(pet.evolutionStage.n)
            ELSE pet.evolutionStage.s
        age == pet.ageSeconds
        ic  == pet.interactionCount
    IN  IF ~age.def \/ ~ic.def
        THEN EvoResult(FALSE, "null", "null", evolutionStage)
        ELSE IF evolutionStage = "legendary"
        THEN EvoResult(FALSE, "null", "null", "legendary")
        ELSE IF age.v >= AdultToLegendaryAge \/ ic.v >= AdultToLegendaryInteractions
        THEN EvoResult(TRUE, "legendary",
                       IF age.v >= AdultToLegendaryAge THEN "age" ELSE "interactions",
                       evolutionStage)
        ELSE IF evolutionStage = "baby"
                /\ (age.v >= BabyToAdultAge \/ ic.v >= BabyToAdultInteractions)
        THEN EvoResult(TRUE, "adult",
                       IF age.v >= BabyToAdultAge THEN "age" ELSE "interactions",
                       "baby")
        ELSE EvoResult(FALSE, "null", "null", evolutionStage)

checkEvolutionInteractionsFirst(pet) ==
    LET evolutionStage ==
            IF pet.evolutionStage.t = "num"
            THEN stageMap(pet.evolutionStage.n)
            ELSE pet.evolutionStage.s
        age == pet.ageSeconds
        ic  == pet.interactionCount
    IN  IF ~age.def \/ ~ic.def
        THEN EvoResult(FALSE, "null", "null", evolutionStage)
        ELSE IF evolutionStage = "legendary"
        THEN EvoResult(FALSE, "null", "null", "legendary")
        ELSE IF evolutionStage = "baby"
                /\ (age.v >= BabyToAdultAge \/ ic.v >= BabyToAdultInteractions)
        THEN EvoResult(TRUE, "adult",
                       IF ic.v >= BabyToAdultInteractions THEN "interactions" ELSE "age",
                       "baby")
        ELSE IF evolutionStage = "adult"
                /\ (age.v >= AdultToLegendaryAge \/ ic.v >= AdultToLegendaryInteractions)
        THEN EvoResult(TRUE, "legendary",
                       IF ic.v >= AdultToLegendaryInteractions THEN "interactions" ELSE "age",
                       "adult")
        ELSE EvoResult(FALSE, "null", "null", evolutionStage)

checkEvolution(pet) ==
    LET evolutionStage ==
            IF pet.evolutionStage.t = "num"
            THEN stageMap(pet.evolutionStage.n)
            ELSE pet.evolutionStage.s
        age == pet.ageSeconds
        ic  == pet.interactionCount
    IN  IF ~age.def \/ ~ic.def
        THEN EvoResult(FALSE, "null", "null", evolutionStage)
        ELSE IF evolutionStage = "legendary"
        THEN EvoResult(FALSE, "null", "null", "legendary")
        ELSE IF evolutionStage = "baby"
                /\ (age.v >= BabyToAdultAge \/ ic.v >= BabyToAdultInteractions)
        THEN EvoResult(TRUE, "adult",
                       IF age.v >= BabyToAdultAge THEN "age" ELSE "interactions",
                       "baby")
        ELSE IF evolutionStage = "adult"
                /\ (age.v >= AdultToLegendaryAge \/ ic.v >= AdultToLegendaryInteractions)
        THEN EvoResult(TRUE, "legendary",
                       IF age.v >= AdultToLegendaryAge THEN "age" ELSE "interactions",
                       "adult")
        ELSE EvoResult(FALSE, "null", "null", evolutionStage)

(***************************************************************************)
(* Specification SpecMood: calculateMood applied to every sampled input    *)
(***************************************************************************)
PriceInputs ==
    {Fin(v) : v \in (-(MaxPriceAbs * Q))..(MaxPriceAbs * Q)} \cup {NaN, PosInf, NegInf, Undef}

ModifierInputs ==
    {Fin(v) : v \in (-(MaxModAbs * Q))..(MaxModAbs * Q)} \cup {NaN, PosInf, NegInf, Undef}

FnIdle ==
    /\ moodIn = NoArgs /\ moodOut = NoResult
    /\ evoIn = NoArgs /\ evoOut = NoResult
    /\ callIn = NoArgs /\ callOut = NoResult

(***************************************************************************)
(* storage: the pet record in localStorage                                 *)
(***************************************************************************)
NoRecord == [none |-> TRUE]

getDefaultPetState ==
    [moodLevel |-> 3, moodState |-> "neutral", evolutionStage |-> 1,
     ageSeconds |-> 0, interactionCount |-> 0, schadenfreudeCount |-> 0,
     comedyAttempts |-> 0, comedySuccesses |-> 0,
     schadenfreudeCooldownUntil |-> 0, comedyCooldownUntil |-> 0]

\* each of the three checked fields falls back to its default; the rest is merged
validateAndMergeState(obj) ==
    [obj EXCEPT
        !.moodLevel = IF obj.moodLevel >= 1 /\ obj.moodLevel <= 5
                      THEN obj.moodLevel ELSE getDefaultPetState.moodLevel,
        !.moodState = IF obj.moodState \in MoodStates
                      THEN obj.moodState ELSE getDefaultPetState.moodState,
        !.evolutionStage = IF obj.evolutionStage >= 1 /\ obj.evolutionStage <= 3
                           THEN obj.evolutionStage ELSE getDefaultPetState.evolutionStage]

loadPetState(stored) ==
    IF stored = NoRecord THEN getDefaultPetState ELSE validateAndMergeState(stored)

\* savePetState with a partial holding moodLevel and moodState (handleMoodUpdate)
savePetStateMood(stored, level, state) ==
    [loadPetState(stored) EXCEPT !.moodLevel = level, !.moodState = state]

\* getCooldownExpiresAt: the stored expiry, or null (0 here)
getCooldownExpiresAt(cds, featureId) ==
    IF featureId \in DOMAIN cds THEN cds[featureId] ELSE 0

\* the auto-save effect of App: savePetState with every field of the state
AutoSave(stored, m, cds) ==
    [loadPetState(stored) EXCEPT
        !.moodLevel = m.moodLevel,
        !.moodState = m.petState.mood,
        !.evolutionStage = m.petState.evolutionStage,
        !.ageSeconds = m.ageSeconds,
        !.interactionCount = m.interactionCount,
        !.schadenfreudeCount = m.schadenfreudeCount,
        !.comedyAttempts = m.comedyAttempts,
        !.comedySuccesses = m.comedySuccesses,
        !.schadenfreudeCooldownUntil = getCooldownExpiresAt(cds, "schadenfreude"),
        !.comedyCooldownUntil = getCooldownExpiresAt(cds, "comedy")]

(***************************************************************************)
(* useCryptoUpdates                                                        *)
(***************************************************************************)
HistoryLength == 10

HookCoins == {"bitcoin", "ethereum"}

NoPriceData == [has |-> FALSE]

\* fetchPrice of the hook up to its await
fetchPriceStart(h) ==
    IF ~h.enabled THEN h
    ELSE [h EXCEPT !.loading = TRUE,
                   !.pending = Append(@, [coinId |-> h.coinId, scope |-> h.scope]),
                   !.started = @ + 1]

\* the polling effect is cleaned up and run again with the props coinId, enabled;
\* scope counts the runs of the effect
useCryptoUpdatesEffect(h, coinId, enabled) ==
    LET cleanedUp == [h EXCEPT !.mountedRef = FALSE]
    IN  fetchPriceStart([cleanedUp EXCEPT !.mountedRef = TRUE, !.coinId = coinId,
                                          !.enabled = enabled, !.scope = @ + 1])

\* the unmount: the cleanup alone
useCryptoUpdatesUnmount(h) == [h EXCEPT !.mounted = FALSE, !.mountedRef = FALSE]

LastOf(seq, n) == IF Len(seq) <= n THEN seq ELSE SubSeq(seq, Len(seq) - n + 1, Len(seq))

\* cryptoService.fetchPrice has settled with data for the i-th fetch in flight
fetchPriceSettle(h, i, data) ==
    LET call == h.pending[i]
        rest == [h EXCEPT !.pending = SubSeq(@, 1, i - 1) \o SubSeq(@, i + 1, Len(@))]
    IN  IF ~rest.mountedRef THEN rest
        ELSE IF data.ok
        THEN [rest EXCEPT !.priceData = [has |-> TRUE, coinId |-> call.coinId,
                                         price |-> data.price],
                          !.priceHistory = LastOf(Append(@, [coinId |-> call.coinId,
                                                             price |-> data.price]),
                                                  HistoryLength),
                          !.loading = FALSE]
        ELSE [rest EXCEPT !.loading = FALSE]

\* the hook after its first render and the first run of its effect, for bitcoin
useCryptoUpdatesMounted ==
    fetchPriceStart([coinId |-> "bitcoin", enabled |-> TRUE, mounted |-> TRUE,
                     mountedRef |-> TRUE, scope |-> 1, priceData |-> NoPriceData,
                     priceHistory |-> <<>>, loading |-> TRUE, pending |-> <<>>,
                     started |-> 0])

\* the App after its first mount: the default pet, saved by the auto-save effect
AppFreshExceptStore ==
    /\ petState = [mood |-> "neutral", evolutionStage |-> 1]
    /\ moodLevel = 3
    /\ ageSeconds = 0
    /\ interactionCount = 0
    /\ schadenfreudeCount = 0
    /\ comedyAttempts = 0
    /\ comedySuccesses = 0
    /\ manualEvolutionOverride = FALSE
    /\ priceData = [has |-> FALSE, change24h |-> 0]
    /\ prevPriceChangeRef = [has |-> FALSE, change24h |-> 0]
    /\ evoRefs = [hasEvolved |-> FALSE, lastEvolutionStage |-> 1]
    /\ cooldowns = <<>>
    /\ now = Epoch
    /\ lastRequestTime = 0
    /\ pendingJokes = <<>>
    /\ jokeResult = [none |-> TRUE]
    /\ jokeSettled = [none |-> TRUE]
    /\ lastRatedAt = 0
    /\ cache = <<>>
    /\ pendingRequests = <<>>
    /\ promises = <<>>
    /\ callers = <<>>
    /\ cooldownSet = <<>>
    /\ cacheSet = <<>>
    /\ generatedIds = 0
    /\ petIdentity = NoRecord
    /\ cryptoUpdates = useCryptoUpdatesMounted
    /\ pendingCheer = <<>>
    /\ op = "init"
    /\ fires = <<>>
    /\ entered = {}
    /\ unseen = FALSE
    /\ callsSinceStageChange = 0
    /\ cheerResult = [none |-> TRUE]
    /\ cheerSettled = [none |-> TRUE]

AppFresh == store = getDefaultPetState /\ AppFreshExceptStore

InitMood ==
    /\ moodIn \in [priceChange24h : PriceInputs, weatherModifier : ModifierInputs]
    /\ moodOut = NoResult
    /\ evoIn = NoArgs /\ evoOut = NoResult
    /\ callIn = NoArgs /\ callOut = NoResult
    /\ AppFresh

CallCalculateMood ==
    /\ moodIn # NoArgs
    /\ moodOut = NoResult
    /\ moodOut' = calculateMood(moodIn.priceChange24h, moodIn.weatherModifier)
    /\ UNCHANGED <<moodIn, evoIn, evoOut, callIn, callOut, appVars>>

NextMood == CallCalculateMood

SpecMood == InitMood /\ [][NextMood]_vars

(***************************************************************************)
(* Specification SpecCheckEvolution: checkEvolution on every sampled state *)
(***************************************************************************)
AgeSamples ==
    {0} \cup ((BabyToAdultAge - Margin)..(BabyToAdultAge + Margin))
        \cup ((AdultToLegendaryAge - Margin)..(AdultToLegendaryAge + Margin))

StageInputs == {NumStage(n) : n \in 1..3} \cup {StrStage(s) : s \in StageNamesStr}

InitCheckEvolution ==
    /\ evoIn \in [evolutionStage : StageInputs,
                  ageSeconds : {Some(a) : a \in AgeSamples} \cup {Undefined},
                  interactionCount : {Some(i) : i \in 0..MaxIc} \cup {Undefined}]
    /\ evoOut = NoResult
    /\ moodIn = NoArgs /\ moodOut = NoResult
    /\ callIn = NoArgs /\ callOut = NoResult
    /\ AppFresh

CallCheckEvolution ==
    /\ evoIn # NoArgs
    /\ evoOut = NoResult
    /\ evoOut' = checkEvolution(evoIn)
    /\ UNCHANGED <<moodIn, moodOut, evoIn, callIn, callOut, appVars>>

NextCheckEvolution == CallCheckEvolution

SpecCheckEvolution == InitCheckEvolution /\ [][NextCheckEvolution]_vars

(***************************************************************************)
(* useEvolutionCheck: one run of its effect, and App's handleEvolution     *)
(***************************************************************************)
PetOf(stage, age, ic) ==
    [evolutionStage |-> NumStage(stage), ageSeconds |-> Some(age),
     interactionCount |-> Some(ic)]

\* the effect with the one-shot guard left out
useEvolutionCheckEffectNoGuard(refs, stage, age, ic, enabled) ==
    IF ~enabled
    THEN [refs |-> refs, fired |-> FALSE, result |-> checkEvolution(PetOf(stage, age, ic))]
    ELSE LET r == checkEvolution(PetOf(stage, age, ic))
         IN  [refs |-> [hasEvolved |-> r.shouldEvolve, lastEvolutionStage |-> stage],
              fired |-> r.shouldEvolve, result |-> r]

\* the effect with the guard not cleared when the stage changes
useEvolutionCheckEffectKeepsGuard(refs, stage, age, ic, enabled) ==
    IF ~enabled
    THEN [refs |-> refs, fired |-> FALSE, result |-> checkEvolution(PetOf(stage, age, ic))]
    ELSE LET r    == checkEvolution(PetOf(stage, age, ic))
             fire == r.shouldEvolve /\ ~refs.hasEvolved
         IN  [refs |-> [hasEvolved |-> refs.hasEvolved \/ fire, lastEvolutionStage |-> stage],
              fired |-> fire, result |-> r]

useEvolutionCheckEffect(refs, stage, age, ic, enabled) ==
    IF ~enabled
    THEN [refs |-> refs, fired |-> FALSE, result |-> checkEvolution(PetOf(stage, age, ic))]
    ELSE LET cleared == IF stage # refs.lastEvolutionStage
                        THEN [hasEvolved |-> FALSE, lastEvolutionStage |-> stage]
                        ELSE refs
             r    == checkEvolution(PetOf(stage, age, ic))
             fire == r.shouldEvolve /\ ~cleared.hasEvolved
         IN  [refs |-> [cleared EXCEPT !.hasEvolved = cleared.hasEvolved \/ fire],
              fired |-> fire, result |-> r]

\* handleEvolution leaving the stage as it is
handleEvolutionKeepsStage(stage, result) == stage

\* handleEvolution: the stage petState gets from an evolution result
handleEvolution(stage, result) ==
    CASE result.nextStage = "baby" -> 1
      [] result.nextStage = "adult" -> 2
      [] result.nextStage = "legendary" -> 3
      [] OTHER -> stage

\* The effect is run, onEvolution (handleEvolution) sets the new stage, the component
\* renders again and the effect runs again, until a run fires nothing.
RECURSIVE RunEvolutionEffects(_, _, _, _, _, _)
RunEvolutionEffects(refs, stage, age, ic, enabled, fired) ==
    LET e        == useEvolutionCheckEffect(refs, stage, age, ic, enabled)
        newStage == handleEvolution(stage, e.result)
    IN  IF e.fired /\ newStage # stage
        THEN RunEvolutionEffects(e.refs, newStage, age, ic, enabled, Append(fired, stage))
        ELSE [refs |-> e.refs, stage |-> stage,
              fires |-> IF e.fired THEN Append(fired, stage) ELSE fired]

(***************************************************************************)
(* The effects of App after a handler has set state                        *)
(***************************************************************************)
Memory ==
    [petState |-> petState, moodLevel |-> moodLevel, ageSeconds |-> ageSeconds,
     interactionCount |-> interactionCount, schadenfreudeCount |-> schadenfreudeCount,
     comedyAttempts |-> comedyAttempts, comedySuccesses |-> comedySuccesses,
     manualEvolutionOverride |-> manualEvolutionOverride, priceData |-> priceData,
     prevPriceChangeRef |-> prevPriceChangeRef, evoRefs |-> evoRefs]

\* the weather modifier of a pet without a weather reading (weather?.moodModifier ?? 0)
moodModifier == Whole(0)

\* "Calculate mood from price changes and weather"
MoodEffect(m) ==
    IF ~m.priceData.has \/ m.prevPriceChangeRef = m.priceData
    THEN m
    ELSE LET newMood == calculateMood(Fin(m.priceData.change24h), moodModifier)
         IN  [m EXCEPT !.prevPriceChangeRef = m.priceData,
                       !.petState.mood = newMood.moodState,
                       !.moodLevel = newMood.moodLevel.v \div Q]

EvolutionDeps(m) ==
    <<m.petState.evolutionStage, m.ageSeconds, m.interactionCount,
      m.manualEvolutionOverride>>

EvolutionEffects(m0, m, mount) ==
    IF mount \/ EvolutionDeps(m0) # EvolutionDeps(m)
    THEN LET r == RunEvolutionEffects(m.evoRefs, m.petState.evolutionStage, m.ageSeconds,
                                      m.interactionCount, ~m.manualEvolutionOverride, <<>>)
         IN  [m |-> [m EXCEPT !.evoRefs = r.refs, !.petState.evolutionStage = r.stage],
              fires |-> r.fires, ran |-> TRUE]
    ELSE [m |-> m, fires |-> <<>>, ran |-> FALSE]

AutoSaveDeps(m) ==
    <<m.priceData, m.moodLevel, m.petState.mood, m.petState.evolutionStage,
      m.ageSeconds, m.interactionCount, m.schadenfreudeCount,
      m.comedyAttempts, m.comedySuccesses>>

\* m0: the state of the last render; m: the state the handler has set;
\* disk: the store as the handler left it
Effects(m0, m, disk, cds, mount) ==
    LET ev == EvolutionEffects(m0, MoodEffect(m), mount)
    IN  [m     |-> ev.m,
         fires |-> ev.fires,
         ran   |-> ev.ran,
         store |-> IF mount \/ AutoSaveDeps(m0) # AutoSaveDeps(ev.m)
                   THEN AutoSave(disk, ev.m, cds) ELSE disk]

\* stage values newly taken in a step: by the handler, then by each evolution
EnteredBy(s0, s1, fired, pendingChange) ==
    (IF s1 # s0 \/ pendingChange THEN {s1} ELSE {}) \cup {f + 1 : f \in {fired[i] : i \in DOMAIN fired}}

\* the primed variables of a step: e is what the effects left, s1 the stage the
\* handler had set
Commit(e, s1, cds, mount, name) ==
    LET enabledNow == ~e.m.manualEvolutionOverride
        s0 == petState.evolutionStage
    IN  /\ petState' = e.m.petState
        /\ moodLevel' = e.m.moodLevel
        /\ ageSeconds' = e.m.ageSeconds
        /\ interactionCount' = e.m.interactionCount
        /\ schadenfreudeCount' = e.m.schadenfreudeCount
        /\ comedyAttempts' = e.m.comedyAttempts
        /\ comedySuccesses' = e.m.comedySuccesses
        /\ manualEvolutionOverride' = e.m.manualEvolutionOverride
        /\ priceData' = e.m.priceData
        /\ prevPriceChangeRef' = e.m.prevPriceChangeRef
        /\ evoRefs' = e.m.evoRefs
        /\ store' = e.store
        /\ cooldowns' = cds
        /\ op' = name
        /\ fires' = e.fires
        /\ entered' = IF ~(enabledNow /\ e.ran) THEN {}
                      ELSE IF mount THEN EnteredBy(s1, s1, e.fires, FALSE)
                      ELSE EnteredBy(s0, s1, e.fires, unseen)
        /\ unseen' = IF mount \/ (enabledNow /\ e.ran) THEN FALSE
                     ELSE (unseen \/ s1 # s0)
        /\ UNCHANGED <<fnVars, callsSinceStageChange>>

\* a handler sets memory m (and leaves the store alone); the effects follow
Step(m, name) ==
    \E e \in {Effects(Memory, m, store, cooldowns, FALSE)} :
        Commit(e, m.petState.evolutionStage, cooldowns, FALSE, name)

(***************************************************************************)
(* cooldownManager                                                         *)
(***************************************************************************)
FeatureIds == {"schadenfreude", "comedy"}

CeilDiv(a, b) == -((-a) \div b)

Max(a, b) == IF a >= b THEN a ELSE b
Min(a, b) == IF a <= b THEN a ELSE b

setCooldown(cds, featureId, durationSeconds, t) ==
    [k \in DOMAIN cds \cup {featureId} |->
        IF k = featureId THEN t + durationSeconds * 1000 ELSE cds[k]]

clearCooldown(cds, featureId) == [k \in DOMAIN cds \ {featureId} |-> cds[k]]

\* the remaining seconds rounded down instead of up
getRemainingCooldownFloor(cds, featureId, t) ==
    IF featureId \notin DOMAIN cds
    THEN [remaining |-> 0, cooldowns |-> cds]
    ELSE LET remaining == Max(0, (cds[featureId] - t) \div 1000)
         IN  [remaining |-> remaining,
              cooldowns |-> IF remaining = 0 THEN clearCooldown(cds, featureId) ELSE cds]

\* getRemainingCooldown without the clean-up of an expired entry
getRemainingCooldownNoCleanup(cds, featureId, t) ==
    IF featureId \notin DOMAIN cds
    THEN [remaining |-> 0, cooldowns |-> cds]
    ELSE [remaining |-> Max(0, CeilDiv(cds[featureId] - t, 1000)), cooldowns |-> cds]

\* the remaining seconds, and the entries after an expired entry has been removed
getRemainingCooldown(cds, featureId, t) ==
    IF featureId \notin DOMAIN cds
    THEN [remaining |-> 0, cooldowns |-> cds]
    ELSE LET remaining == Max(0, CeilDiv(cds[featureId] - t, 1000))
         IN  [remaining |-> remaining,
              cooldowns |-> IF remaining = 0 THEN clearCooldown(cds, featureId) ELSE cds]

isCooldownActive(cds, featureId, t) == getRemainingCooldown(cds, featureId, t).remaining > 0

clearAllCooldowns(cds) == [k \in {} |-> 0]

(***************************************************************************)
(* SpecEvolution: the pet ages, is interacted with, evolves, is forced to  *)
(* a stage from the console, is reset and is reloaded                      *)
(***************************************************************************)
MaxTicks == 3    \* seconds the pet is followed from each sampled age

ElapsedSamples == {0, BabyToAdultAge - Margin, AdultToLegendaryAge - Margin}

CheerIdle == UNCHANGED <<now, pendingCheer, cheerResult, cheerSettled, judgeVars, svcVars>>

\* the one-second interval of the age effect
AgeTick ==
    /\ \E a \in ElapsedSamples : ageSeconds \in a..(a + MaxTicks - 1)
    /\ Step([Memory EXCEPT !.ageSeconds = @ + 1], "AgeTick")
    /\ CheerIdle

MoodLevelMap(mood) ==
    CASE mood = "happy" -> 4 [] mood = "neutral" -> 3 [] mood = "sad" -> 2

\* window.setMood(mood)
SetMood(mood) ==
    /\ interactionCount < MaxIc
    /\ Step([Memory EXCEPT !.petState.mood = mood, !.moodLevel = MoodLevelMap(mood),
                           !.interactionCount = @ + 1], "SetMood")
    /\ CheerIdle

\* window.setEvolution(stage)
SetEvolution(stage) ==
    /\ Step([Memory EXCEPT !.manualEvolutionOverride = TRUE,
                           !.petState.evolutionStage = stage], "SetEvolution")
    /\ CheerIdle

\* window.enableAutoEvolution()
EnableAutoEvolution ==
    /\ Step([Memory EXCEPT !.manualEvolutionOverride = FALSE], "EnableAutoEvolution")
    /\ CheerIdle

\* window.disableAutoEvolution()
DisableAutoEvolution ==
    /\ Step([Memory EXCEPT !.manualEvolutionOverride = TRUE], "DisableAutoEvolution")
    /\ CheerIdle

\* handleReset: the stored pet and the cooldowns are removed, the state is set to
\* the defaults, the effects follow
ResetMemory ==
    [Memory EXCEPT !.petState = [mood |-> "neutral", evolutionStage |-> 1],
                   !.moodLevel = 3, !.ageSeconds = 0,
                   !.interactionCount = 0, !.schadenfreudeCount = 0,
                   !.comedyAttempts = 0, !.comedySuccesses = 0]

HandleReset ==
    /\ \E e \in {Effects(Memory, ResetMemory, NoRecord, clearAllCooldowns(cooldowns), FALSE)} :
           Commit(e, 1, clearAllCooldowns(cooldowns), FALSE, "HandleReset")
    /\ pendingCheer' = pendingCheer
    /\ UNCHANGED <<now, cheerResult, cheerSettled, judgeVars, svcVars>>

\* the "Restore cooldowns from saved state" effect
RestoreCooldown(until, cds, featureId, t) ==
    IF until # 0 /\ Max(0, CeilDiv(until - t, 1000)) > 0
    THEN setCooldown(cds, featureId, Max(0, CeilDiv(until - t, 1000)), t)
    ELSE cds

RestoreCooldowns(savedState, cds, t) ==
    RestoreCooldown(savedState.comedyCooldownUntil,
                    RestoreCooldown(savedState.schadenfreudeCooldownUntil, cds,
                                    "schadenfreude", t),
                    "comedy", t)

\* the state of the first render: the useState and useRef initial values
MountMemory(savedState) ==
    [petState |-> [mood |-> savedState.moodState,
                   evolutionStage |-> savedState.evolutionStage],
     moodLevel |-> savedState.moodLevel,
     ageSeconds |-> savedState.ageSeconds,
     interactionCount |-> savedState.interactionCount,
     schadenfreudeCount |-> savedState.schadenfreudeCount,
     comedyAttempts |-> savedState.comedyAttempts,
     comedySuccesses |-> savedState.comedySuccesses,
     manualEvolutionOverride |-> FALSE,
     priceData |-> [has |-> FALSE, change24h |-> 0],
     prevPriceChangeRef |-> [has |-> FALSE, change24h |-> 0],
     evoRefs |-> [hasEvolved |-> FALSE,
                  lastEvolutionStage |-> savedState.evolutionStage]]

\* The page is loaded again, elapsed seconds after the pet was created: the state
\* is initialised from the stored pet, the mount effects run with it, then the age
\* effect's setAgeSeconds(initialAge) is rendered.
Reload(elapsed) ==
    /\ store = NoRecord => elapsed = 0
    /\ \E savedState \in {loadPetState(store)} :
       \E restored \in {RestoreCooldowns(savedState, cooldowns, now)} :
       \E m0 \in {MountMemory(savedState)} :
       \E e1 \in {Effects(m0, m0, store, restored, TRUE)} :
       \E initialAge \in {Max(savedState.ageSeconds, elapsed)} :
       \E e2 \in {Effects(e1.m, [e1.m EXCEPT !.ageSeconds = initialAge], e1.store,
                          restored, FALSE)} :
           Commit([e2 EXCEPT !.fires = e1.fires \o e2.fires, !.ran = TRUE],
                  savedState.evolutionStage, restored, TRUE, "Reload")
    /\ pendingCheer' = <<>>
    /\ lastRequestTime' = 0
    /\ pendingJokes' = <<>>
    /\ lastRatedAt' = 0
    /\ cache' = <<>>
    /\ pendingRequests' = <<>>
    /\ promises' = <<>>
    /\ UNCHANGED <<now, cheerResult, cheerSettled, jokeResult, jokeSettled,
                   callers, cooldownSet, cacheSet,
                generatedIds, petIdentity, cryptoUpdates>>

InitEvolution == FnIdle /\ AppFresh

NextEvolution ==
    \/ AgeTick
    \/ \E mood \in MoodStates : SetMood(mood)
    \/ \E stage \in 1..3 : SetEvolution(stage)
    \/ EnableAutoEvolution
    \/ DisableAutoEvolution
    \/ HandleReset
    \/ \E elapsed \in ElapsedSamples : Reload(elapsed)

SpecEvolution == InitEvolution /\ [][NextEvolution]_vars

(***************************************************************************)
(* CryptoService.findWorsePerformer over the prices fetchPrice resolves to *)
(***************************************************************************)
NumOthers == 2    \* coins compared with the current coin

NoPrice == [ok |-> FALSE, change24h |-> 0]          \* fetchPrice resolved to null
PriceOf(change24h) == [ok |-> TRUE, change24h |-> change24h]

MarketChanges == {-1, 0}

\* the current coin at change24h 0 against every combination of the others, and the
\* market in which no price can be fetched
Markets ==
    [current : {PriceOf(0)},
     others  : [1..NumOthers -> {NoPrice} \cup {PriceOf(c) : c \in MarketChanges}]]
    \cup {[current |-> NoPrice, others |-> [i \in 1..NumOthers |-> NoPrice]]}

NullComparison(error) ==
    [isNull |-> TRUE, error |-> error, worseCoin |-> 0, currentChange |-> 0, worseChange |-> 0]

\* the reduce over worsePerformers: the first coin holding the lowest change24h
RECURSIVE WorstOf(_, _, _)
WorstOf(others, candidates, worst) ==
    IF candidates = {} THEN worst
    ELSE LET i == CHOOSE j \in candidates : \A l \in candidates : j <= l
         IN  WorstOf(others, candidates \ {i},
                     IF others[i].change24h < others[worst].change24h THEN i ELSE worst)

\* findWorsePerformer comparing with <= instead of <
findWorsePerformerNotStrict(market) ==
    IF ~market.current.ok
    THEN NullComparison(TRUE)
    ELSE LET worsePerformers ==
                 {i \in DOMAIN market.others :
                      /\ market.others[i].ok
                      /\ market.others[i].change24h <= market.current.change24h}
             first == CHOOSE j \in worsePerformers : \A l \in worsePerformers : j <= l
             worst == WorstOf(market.others, worsePerformers \ {first}, first)
         IN  IF worsePerformers = {}
             THEN NullComparison(FALSE)
             ELSE [isNull |-> FALSE, error |-> FALSE, worseCoin |-> worst,
                   currentChange |-> market.current.change24h,
                   worseChange |-> market.others[worst].change24h]

findWorsePerformer(market) ==
    IF ~market.current.ok
    THEN NullComparison(TRUE)      \* the Error thrown inside is caught: null
    ELSE LET worsePerformers ==
                 {i \in DOMAIN market.others :
                      /\ market.others[i].ok
                      /\ market.others[i].change24h < market.current.change24h}
             first == CHOOSE j \in worsePerformers : \A l \in worsePerformers : j <= l
             worst == WorstOf(market.others, worsePerformers \ {first}, first)
         IN  IF worsePerformers = {}
             THEN NullComparison(FALSE)
             ELSE [isNull |-> FALSE, error |-> FALSE, worseCoin |-> worst,
                   currentChange |-> market.current.change24h,
                   worseChange |-> market.others[worst].change24h]

(***************************************************************************)
(* SpecWorse: findWorsePerformer(currentCoinId) over the coin catalogue,   *)
(* for every assignment of prices to the coins                             *)
(***************************************************************************)
NumCoins     == 3    \* coins in the catalogue (COINS holds 15)
MaxChange    == 2    \* change24h ranges over -MaxChange..MaxChange
CompareLimit == 14   \* slice(0, 14)

COINS == 1..NumCoins
UnknownCoin == 0     \* an id that is not in COINS

\* COINS.filter((coin) => coin.id !== currentCoinId).slice(0, 14), in catalogue order
RECURSIVE FilterOthers(_, _)
FilterOthers(currentCoinId, from) ==
    IF from > NumCoins THEN <<>>
    ELSE IF from = currentCoinId THEN FilterOthers(currentCoinId, from + 1)
    ELSE <<from>> \o FilterOthers(currentCoinId, from + 1)

coinsToCompare(currentCoinId) ==
    LET others == FilterOthers(currentCoinId, 1)
    IN  SubSeq(others, 1, Min(CompareLimit, Len(others)))

\* findWorsePerformer(currentCoinId) when fetchPrice(id) resolves to prices[id]:
\* the comparison names the worse coin by its id
findWorsePerformerOf(prices, currentCoinId) ==
    IF currentCoinId \notin COINS
    THEN [NullComparison(TRUE) EXCEPT !.worseCoin = UnknownCoin]
    ELSE LET compared == coinsToCompare(currentCoinId)
             found == findWorsePerformer(
                          [current |-> prices[currentCoinId],
                           others  |-> [i \in DOMAIN compared |-> prices[compared[i]]]])
         IN  IF found.isNull THEN [found EXCEPT !.worseCoin = UnknownCoin]
             ELSE [found EXCEPT !.worseCoin = compared[found.worseCoin]]

CatalogueChanges == (-MaxChange)..MaxChange

InitWorse ==
    /\ callIn \in [fn : {"findWorsePerformer"},
                   currentCoinId : COINS \cup {UnknownCoin},
                   prices : [COINS \cup {UnknownCoin} ->
                                {NoPrice} \cup {PriceOf(c) : c \in CatalogueChanges}]]
    /\ callOut = NoResult
    /\ moodIn = NoArgs /\ moodOut = NoResult
    /\ evoIn = NoArgs /\ evoOut = NoResult
    /\ AppFresh

CallFindWorsePerformer ==
    /\ callIn # NoArgs
    /\ callOut = NoResult
    /\ callOut' = findWorsePerformerOf(callIn.prices, callIn.currentCoinId)
    /\ UNCHANGED <<moodIn, moodOut, evoIn, evoOut, callIn, appVars>>

NextWorse == CallFindWorsePerformer

SpecWorse == InitWorse /\ [][NextWorse]_vars

(***************************************************************************)
(* useSchadenfreude.triggerSchadenfreude and App's handleCheerUp           *)
(***************************************************************************)
SchadenfreudeCooldownSeconds == 120

\* the boost without the clamp
boostedMoodLevelUnclamped(currentMoodLevel) == currentMoodLevel + 1

boostedMoodLevel(currentMoodLevel) == Min(5, currentMoodLevel + 1)

newMoodStateOf(newMoodLevel) ==
    IF newMoodLevel >= 4 THEN "happy"
    ELSE IF newMoodLevel <= 2 THEN "sad"
    ELSE "neutral"

\* the cooldown after findWorsePerformer has resolved, set whatever it resolved to
cooldownAfterAlways(comparison, cds, t) ==
    setCooldown(cds, "schadenfreude", SchadenfreudeCooldownSeconds, t)

cooldownAfter(comparison, cds, t) ==
    IF comparison.isNull THEN cds
    ELSE setCooldown(cds, "schadenfreude", SchadenfreudeCooldownSeconds, t)

(***************************************************************************)
(* SpecCheer: cheer-ups, their settling, price updates and the clock       *)
(***************************************************************************)
ClockStep  == 60000    \* ms the clock advances in one step
MaxClock   == 2        \* clock steps followed
MaxCheers  == 2        \* cheer-ups followed
MaxPending == 2        \* cheer-ups awaiting findWorsePerformer at once

PriceChanges == {-6, 0, 6}

AdvanceClock ==
    /\ now + ClockStep <= Epoch + MaxClock * ClockStep
    /\ now' = now + ClockStep
    /\ op' = "AdvanceClock"
    /\ fires' = <<>>
    /\ entered' = {}
    /\ UNCHANGED <<fnVars, memVars, diskVars, pendingCheer, unseen,
                   callsSinceStageChange, cheerResult, cheerSettled, judgeVars, svcVars>>

\* useCryptoUpdates delivers a price; the mood effect follows
PriceUpdate(change24h) ==
    /\ Step([Memory EXCEPT !.priceData = [has |-> TRUE, change24h |-> change24h]],
            "PriceUpdate")
    /\ CheerIdle

\* handleCheerUp up to the first await inside triggerSchadenfreude: the counters are
\* incremented, the cooldown is checked, and findWorsePerformer is called or not
HandleCheerUp ==
    /\ schadenfreudeCount < MaxCheers
    /\ Len(pendingCheer) < MaxPending
    /\ \E r \in {getRemainingCooldown(cooldowns, "schadenfreude", now)} :
       \E m \in {[Memory EXCEPT !.interactionCount = @ + 1,
                                !.schadenfreudeCount = @ + 1]} :
       \E e \in {Effects(Memory, m, store, r.cooldowns, FALSE)} :
           /\ Commit(e, m.petState.evolutionStage, r.cooldowns, FALSE, "HandleCheerUp")
           /\ IF r.remaining > 0
              THEN /\ cheerResult' = NullComparison(FALSE)
                   /\ pendingCheer' = pendingCheer
              ELSE /\ cheerResult' = cheerResult
                   /\ pendingCheer' = Append(pendingCheer, [currentMoodLevel |-> moodLevel])
    /\ UNCHANGED <<now, cheerSettled, judgeVars, svcVars>>

RemoveAt(seq, i) == SubSeq(seq, 1, i - 1) \o SubSeq(seq, i + 1, Len(seq))

\* findWorsePerformer resolves for the i-th waiting invocation, and
\* triggerSchadenfreude runs to its return
SettleCheerUp(i, market) ==
    /\ i \in DOMAIN pendingCheer
    /\ \E comparison \in {findWorsePerformer(market)} :
       \E newMoodLevel \in {boostedMoodLevel(pendingCheer[i].currentMoodLevel)} :
       \E cds \in {cooldownAfter(comparison, cooldowns, now)} :
       \E m \in {IF comparison.isNull THEN Memory
                 ELSE [Memory EXCEPT !.petState.mood = newMoodStateOf(newMoodLevel),
                                     !.moodLevel = newMoodLevel]} :
       \E disk \in {IF comparison.isNull THEN store
                    ELSE savePetStateMood(store, newMoodLevel, newMoodStateOf(newMoodLevel))} :
       \E e \in {Effects(Memory, m, disk, cds, FALSE)} :
           /\ Commit(e, m.petState.evolutionStage, cds, FALSE, "SettleCheerUp")
           /\ cheerResult' = comparison
           /\ cheerSettled' = [currentMoodLevel |-> pendingCheer[i].currentMoodLevel,
                               comparison |-> comparison]
    /\ pendingCheer' = RemoveAt(pendingCheer, i)
    /\ UNCHANGED <<now, judgeVars, svcVars>>

\* the one-second interval of useSchadenfreude: getRemainingCooldown, which removes
\* an expired entry
UpdateCooldown ==
    /\ cooldowns' = getRemainingCooldown(cooldowns, "schadenfreude", now).cooldowns
    /\ op' = "UpdateCooldown"
    /\ fires' = <<>>
    /\ entered' = {}
    /\ UNCHANGED <<fnVars, memVars, store, envVars, unseen,
                   callsSinceStageChange, cheerResult, cheerSettled, judgeVars, svcVars>>

InitCheer == FnIdle /\ AppFresh

NextCheer ==
    \/ AdvanceClock
    \/ \E change24h \in PriceChanges : PriceUpdate(change24h)
    \/ HandleCheerUp
    \/ \E i \in 1..MaxPending : \E market \in Markets : SettleCheerUp(i, market)
    \/ UpdateCooldown

SpecCheer == InitCheer /\ [][NextCheer]_vars

(***************************************************************************)
(* GeminiService.rateJoke, useComedyJudge.submitJoke, handleComedySubmit   *)
(***************************************************************************)
MaxJokeLength         == 500
RateLimitMs           == 60000
ComedyCooldownSeconds == 60

\* a joke text: its length, and whether it is empty after trimming
JokeText(len, blank) == [len |-> len, blank |-> blank \/ len = 0]

JokeOutcome(kind, text, rating, remaining) ==
    [kind |-> kind, text |-> text, rating |-> rating, remaining |-> remaining]


\* rateJoke up to its fetch: the error it throws, or "pending" when the request is sent
rateJokeStart(jokeText, lastRequest, t) ==
    IF jokeText.blank
    THEN JokeOutcome("validation", jokeText, 0, 0)
    ELSE IF jokeText.len > MaxJokeLength
    THEN JokeOutcome("validation", jokeText, 0, 0)
    ELSE IF t - lastRequest < RateLimitMs
    THEN JokeOutcome("rateLimit", jokeText, 0, CeilDiv(RateLimitMs - (t - lastRequest), 1000))
    ELSE JokeOutcome("pending", jokeText, 0, 0)

\* the rating read from the response: the first number in the text, 5 without one,
\* clamped to 1..10
NoDigits == -1
ratingOf(raw) == IF raw = NoDigits THEN 5 ELSE Max(1, Min(10, raw))

\* the thresholds with sad and happy exchanged
getThresholdSwapped(mood) ==
    CASE mood = "happy" -> 7 [] mood = "neutral" -> 5 [] mood = "sad" -> 3 [] OTHER -> 5

getThreshold(mood) ==
    CASE mood = "happy" -> 3 [] mood = "neutral" -> 5 [] mood = "sad" -> 7 [] OTHER -> 5

\* submitJoke up to the await of rateJoke
submitJokeStart(jokeText, cds, lastRequest, t) ==
    LET r == getRemainingCooldown(cds, "comedy", t)
    IN  IF r.remaining > 0
        THEN [outcome |-> JokeOutcome("cooldown", jokeText, 0, r.remaining),
              cooldowns |-> r.cooldowns]
        ELSE [outcome |-> rateJokeStart(jokeText, lastRequest, t),
              cooldowns |-> r.cooldowns]

(***************************************************************************)
(* SpecComedy: jokes submitted, rated or failed, with price updates and    *)
(* the clock                                                               *)
(***************************************************************************)
JokeClockStep   == 30000   \* ms the clock advances in one step
MaxJokeClock    == 2       \* clock steps followed
MaxJokes        == 2       \* joke submissions followed
MaxPendingJokes == 2       \* rateJoke requests in flight at once

\* the longest valid text, the empty text, a text of white space, a text too long
ValidJoke == JokeText(MaxJokeLength, FALSE)
JokeTexts ==
    {ValidJoke, JokeText(0, TRUE), JokeText(1, TRUE), JokeText(MaxJokeLength + 1, FALSE)}

JokePriceChanges == {-6, 6}

\* what the AI service answers: a failure, or the number it wrote
JudgeResponses ==
    {[ok |-> FALSE, raw |-> 0]} \cup {[ok |-> TRUE, raw |-> n] : n \in {NoDigits, 0, 3, 7, 11}}

Tick(dt, limit) ==
    /\ now + dt <= Epoch + limit
    /\ now' = now + dt
    /\ op' = "Tick"
    /\ fires' = <<>>
    /\ entered' = {}
    /\ UNCHANGED <<fnVars, memVars, diskVars, pendingCheer, unseen,
                   callsSinceStageChange, cheerResult, cheerSettled, judgeVars, svcVars>>

\* handleComedySubmit up to the await inside rateJoke
HandleComedySubmit(jokeText) ==
    /\ comedyAttempts < MaxJokes
    /\ Len(pendingJokes) < MaxPendingJokes
    /\ \E start \in {submitJokeStart(jokeText, cooldowns, lastRequestTime, now)} :
       \E m \in {[Memory EXCEPT !.comedyAttempts = @ + 1]} :
       \E e \in {Effects(Memory, m, store, start.cooldowns, FALSE)} :
           /\ Commit(e, m.petState.evolutionStage, start.cooldowns, FALSE, "HandleComedySubmit")
           /\ jokeResult' = start.outcome
           /\ pendingJokes' =
                  IF start.outcome.kind = "pending"
                  THEN Append(pendingJokes, [currentMood |-> petState.mood,
                                             currentMoodLevel |-> moodLevel,
                                             now |-> now])
                  ELSE pendingJokes
    /\ UNCHANGED <<svcVars, now, pendingCheer, cheerResult, cheerSettled,
                   lastRequestTime, jokeSettled, lastRatedAt>>

\* the AI service answers the i-th request in flight; rateJoke, submitJoke and
\* handleComedySubmit run to their ends
SettleJoke(i, response) ==
    /\ i \in DOMAIN pendingJokes
    /\ \E call \in {pendingJokes[i]} :
       \E rating \in {ratingOf(response.raw)} :
       \E success \in {response.ok /\ rating >= getThreshold(call.currentMood)} :
       \E newMoodLevel \in {boostedMoodLevel(call.currentMoodLevel)} :
       \E cds \in {IF response.ok
                   THEN setCooldown(cooldowns, "comedy", ComedyCooldownSeconds, now)
                   ELSE cooldowns} :
       \E m \in {IF success
                 THEN [Memory EXCEPT !.petState.mood = newMoodStateOf(newMoodLevel),
                                     !.moodLevel = newMoodLevel,
                                     !.comedySuccesses = @ + 1,
                                     !.interactionCount = @ + 1]
                 ELSE Memory} :
       \E disk \in {IF success
                    THEN savePetStateMood(store, newMoodLevel, newMoodStateOf(newMoodLevel))
                    ELSE store} :
       \E e \in {Effects(Memory, m, disk, cds, FALSE)} :
           /\ Commit(e, m.petState.evolutionStage, cds, FALSE, "SettleJoke")
           /\ jokeResult' = IF response.ok THEN JokeOutcome("rated", ValidJoke, rating, 0)
                            ELSE JokeOutcome("transport", ValidJoke, 0, 0)
           /\ jokeSettled' = [currentMood |-> call.currentMood,
                              currentMoodLevel |-> call.currentMoodLevel,
                              now |-> call.now, ok |-> response.ok, rating |-> rating]
           /\ lastRequestTime' = IF response.ok THEN call.now ELSE lastRequestTime
           /\ lastRatedAt' = IF response.ok THEN Max(lastRatedAt, call.now) ELSE lastRatedAt
    /\ pendingJokes' = RemoveAt(pendingJokes, i)
    /\ UNCHANGED <<now, pendingCheer, cheerResult, cheerSettled, svcVars>>

InitComedy == FnIdle /\ AppFresh

NextComedy ==
    \/ Tick(JokeClockStep, MaxJokeClock * JokeClockStep)
    \/ \E change24h \in JokePriceChanges : PriceUpdate(change24h)
    \/ \E jokeText \in JokeTexts : HandleComedySubmit(jokeText)
    \/ \E i \in 1..MaxPendingJokes : \E response \in JudgeResponses : SettleJoke(i, response)

SpecComedy == InitComedy /\ [][NextComedy]_vars

(***************************************************************************)
(* SpecJudge: GeminiService.rateJoke called by any callers at any times    *)
(***************************************************************************)
JudgeFrame ==
    UNCHANGED <<fnVars, memVars, diskVars, pendingCheer, unseen, fires, entered,
                callsSinceStageChange, cheerResult, cheerSettled, svcVars>>

\* rateJoke(jokeText) up to its fetch
RateJoke(jokeText) ==
    /\ Len(pendingJokes) < MaxPendingJokes
    /\ \E outcome \in {rateJokeStart(jokeText, lastRequestTime, now)} :
           /\ jokeResult' = outcome
           /\ pendingJokes' = IF outcome.kind = "pending"
                              THEN Append(pendingJokes, [now |-> now])
                              ELSE pendingJokes
    /\ op' = "RateJoke"
    /\ UNCHANGED <<now, lastRequestTime, jokeSettled, lastRatedAt>>
    /\ JudgeFrame

\* the AI service answers the i-th request in flight, and rateJoke runs to its end
JudgeResponds(i, response) ==
    /\ i \in DOMAIN pendingJokes
    /\ \E call \in {pendingJokes[i]} :
           /\ jokeResult' = IF response.ok
                            THEN JokeOutcome("rated", ValidJoke, ratingOf(response.raw), 0)
                            ELSE JokeOutcome("transport", ValidJoke, 0, 0)
           /\ jokeSettled' = [now |-> call.now, ok |-> response.ok,
                              rating |-> ratingOf(response.raw)]
           /\ lastRequestTime' = IF response.ok THEN call.now ELSE lastRequestTime
           /\ lastRatedAt' = IF response.ok THEN Max(lastRatedAt, call.now) ELSE lastRatedAt
    /\ pendingJokes' = RemoveAt(pendingJokes, i)
    /\ op' = "JudgeResponds"
    /\ UNCHANGED now
    /\ JudgeFrame

InitJudge == FnIdle /\ AppFresh

NextJudge ==
    \/ Tick(JokeClockStep, MaxJokeClock * JokeClockStep)
    \/ \E jokeText \in JokeTexts : RateJoke(jokeText)
    \/ \E i \in 1..MaxPendingJokes : \E response \in JudgeResponses : JudgeResponds(i, response)

SpecJudge == InitJudge /\ [][NextJudge]_vars

(***************************************************************************)
(* SpecCooldown: the cooldown manager called by any callers at any times   *)
(***************************************************************************)
CooldownClockStep == 500   \* ms the clock advances in one step
MaxCooldownClock  == 5     \* clock steps followed
MaxDuration       == 2     \* longest duration, in seconds, passed to setCooldown

CooldownFrame ==
    UNCHANGED <<moodIn, moodOut, evoIn, evoOut, memVars, store, now, pendingCheer, fires,
                entered, unseen, callsSinceStageChange, cheerResult, cheerSettled,
                judgeVars, cache, pendingRequests, promises, callers, cacheSet,
                generatedIds, petIdentity, cryptoUpdates>>

SetCooldown(featureId, durationSeconds) ==
    /\ cooldowns' = setCooldown(cooldowns, featureId, durationSeconds, now)
    /\ cooldownSet' = [k \in DOMAIN cooldownSet \cup {featureId} |->
                         IF k = featureId THEN [t0 |-> now, d |-> durationSeconds]
                         ELSE cooldownSet[k]]
    /\ callIn' = [fn |-> "setCooldown", featureId |-> featureId]
    /\ callOut' = [expiresAt |-> now + durationSeconds * 1000]
    /\ op' = "setCooldown"
    /\ CooldownFrame

GetRemainingCooldown(featureId) ==
    /\ \E r \in {getRemainingCooldown(cooldowns, featureId, now)} :
           /\ cooldowns' = r.cooldowns
           /\ callOut' = [remaining |-> r.remaining]
    /\ callIn' = [fn |-> "getRemainingCooldown", featureId |-> featureId]
    /\ op' = "getRemainingCooldown"
    /\ UNCHANGED cooldownSet
    /\ CooldownFrame

IsCooldownActive(featureId) ==
    /\ cooldowns' = getRemainingCooldown(cooldowns, featureId, now).cooldowns
    /\ callOut' = [active |-> isCooldownActive(cooldowns, featureId, now)]
    /\ callIn' = [fn |-> "isCooldownActive", featureId |-> featureId]
    /\ op' = "isCooldownActive"
    /\ UNCHANGED cooldownSet
    /\ CooldownFrame

ClearCooldown(featureId) ==
    /\ cooldowns' = clearCooldown(cooldowns, featureId)
    /\ cooldownSet' = [k \in DOMAIN cooldownSet \ {featureId} |-> cooldownSet[k]]
    /\ callIn' = [fn |-> "clearCooldown", featureId |-> featureId]
    /\ callOut' = NoResult
    /\ op' = "clearCooldown"
    /\ CooldownFrame

InitCooldown == FnIdle /\ AppFresh

NextCooldown ==
    \/ Tick(CooldownClockStep, MaxCooldownClock * CooldownClockStep)
    \/ \E featureId \in FeatureIds : \E durationSeconds \in 0..MaxDuration :
           SetCooldown(featureId, durationSeconds)
    \/ \E featureId \in FeatureIds : GetRemainingCooldown(featureId)
    \/ \E featureId \in FeatureIds : IsCooldownActive(featureId)
    \/ \E featureId \in FeatureIds : ClearCooldown(featureId)

SpecCooldown == InitCooldown /\ [][NextCooldown]_vars

(***************************************************************************)
(* SpecReload: cheer-ups and jokes set cooldowns, and the page is reloaded *)
(* at any millisecond                                                      *)
(***************************************************************************)
ReloadClockStep == 500   \* ms the clock advances in one step
MaxReloadClock  == 3     \* clock steps followed

InitReload == FnIdle /\ AppFresh

NextReload ==
    \/ Tick(ReloadClockStep, MaxReloadClock * ReloadClockStep)
    \/ HandleCheerUp
    \/ \E i \in 1..MaxPending : \E market \in Markets : SettleCheerUp(i, market)
    \/ HandleComedySubmit(ValidJoke)
    \/ \E i \in 1..MaxPendingJokes : SettleJoke(i, [ok |-> TRUE, raw |-> 7])
    \/ Reload(0)

SpecReload == InitReload /\ [][NextReload]_vars

(***************************************************************************)
(* cacheManager: the TTL cache shared by the price and weather services    *)
(***************************************************************************)
Null == "null"

Services == {"crypto", "weather"}

\* the key `crypto:${coinId}` or `weather:${lat}:${lon}`
CacheKey(service, id) == [service |-> service, id |-> id]

\* new RegExp(pattern).test(key) for the patterns '^crypto:' and '^weather:'
PatternMatches(pattern, key) == pattern = "^" \o key.service \o ":"

\* get that turns an expired entry into a miss
cacheManagerGetFresh(c, key, t) ==
    IF key \notin DOMAIN c THEN Null
    ELSE IF t > c[key].expires THEN Null
    ELSE c[key].data

cacheManagerGet(c, key, t) ==
    IF key \notin DOMAIN c THEN Null
    ELSE IF t > c[key].expires THEN c[key].data
    ELSE c[key].data

cacheManagerGetStale(c, key) == IF key \in DOMAIN c THEN c[key].data ELSE Null

cacheManagerSet(c, key, data, ttlMs, t) ==
    [k \in DOMAIN c \cup {key} |->
        IF k = key THEN [data |-> data, expires |-> t + ttlMs, timestamp |-> t] ELSE c[k]]

cacheManagerHas(c, key, t) ==
    IF key \notin DOMAIN c THEN FALSE ELSE t <= c[key].expires

cacheManagerClear(c, key) == [k \in DOMAIN c \ {key} |-> c[k]]

cacheManagerClearPattern(c, pattern) ==
    [k \in {x \in DOMAIN c : ~PatternMatches(pattern, x)} |-> c[k]]

cacheManagerClearAll(c) == [k \in {} |-> Null]

cacheManagerGetStats(c, t) ==
    [total   |-> Cardinality(DOMAIN c),
     valid   |-> Cardinality({k \in DOMAIN c : t <= c[k].expires}),
     expired |-> Cardinality({k \in DOMAIN c : ~(t <= c[k].expires)})]

(***************************************************************************)
(* SpecCache: the cache called by any callers at any times                 *)
(***************************************************************************)
CacheClockStep == 30   \* ms the clock advances in one step
MaxCacheClock  == 3    \* clock steps followed

CacheKeys == {CacheKey("crypto", 1), CacheKey("weather", 1)}
CacheData == {"a", "b"}
CacheTtls == {30, 50}
CachePatterns == {"^crypto:", "^weather:"}

CacheFrame ==
    UNCHANGED <<moodIn, moodOut, evoIn, evoOut, memVars, diskVars, now, pendingCheer,
                fires, entered, unseen, callsSinceStageChange, cheerResult, cheerSettled,
                judgeVars, pendingRequests, promises, callers, cooldownSet,
                generatedIds, petIdentity, cryptoUpdates>>

CacheGet(key) ==
    /\ callIn' = [fn |-> "get", key |-> key]
    /\ callOut' = [value |-> cacheManagerGet(cache, key, now)]
    /\ op' = "get"
    /\ UNCHANGED <<cache, cacheSet>>
    /\ CacheFrame

CacheGetStale(key) ==
    /\ callIn' = [fn |-> "getStale", key |-> key]
    /\ callOut' = [value |-> cacheManagerGetStale(cache, key)]
    /\ op' = "getStale"
    /\ UNCHANGED <<cache, cacheSet>>
    /\ CacheFrame

CacheHas(key) ==
    /\ callIn' = [fn |-> "has", key |-> key]
    /\ callOut' = [value |-> cacheManagerHas(cache, key, now)]
    /\ op' = "has"
    /\ UNCHANGED <<cache, cacheSet>>
    /\ CacheFrame

CacheGetStats ==
    /\ callIn' = [fn |-> "getStats", key |-> Null]
    /\ callOut' = [value |-> cacheManagerGetStats(cache, now)]
    /\ op' = "getStats"
    /\ UNCHANGED <<cache, cacheSet>>
    /\ CacheFrame

CacheSet(key, data, ttlMs) ==
    /\ cache' = cacheManagerSet(cache, key, data, ttlMs, now)
    /\ cacheSet' = [k \in DOMAIN cacheSet \cup {key} |->
                      IF k = key THEN [data |-> data, ttlMs |-> ttlMs, storedAt |-> now]
                      ELSE cacheSet[k]]
    /\ callIn' = [fn |-> "set", key |-> key]
    /\ callOut' = NoResult
    /\ op' = "set"
    /\ CacheFrame

CacheClear(key) ==
    /\ cache' = cacheManagerClear(cache, key)
    /\ cacheSet' = [k \in DOMAIN cacheSet \ {key} |-> cacheSet[k]]
    /\ callIn' = [fn |-> "clear", key |-> key]
    /\ callOut' = NoResult
    /\ op' = "clear"
    /\ CacheFrame

CacheClearPattern(pattern) ==
    /\ cache' = cacheManagerClearPattern(cache, pattern)
    /\ cacheSet' = [k \in {x \in DOMAIN cacheSet : ~PatternMatches(pattern, x)} |->
                      cacheSet[k]]
    /\ callIn' = [fn |-> "clearPattern", key |-> pattern]
    /\ callOut' = NoResult
    /\ op' = "clearPattern"
    /\ CacheFrame

CacheClearAll ==
    /\ cache' = cacheManagerClearAll(cache)
    /\ cacheSet' = [k \in {} |-> Null]
    /\ callIn' = [fn |-> "clearAll", key |-> Null]
    /\ callOut' = NoResult
    /\ op' = "clearAll"
    /\ CacheFrame

InitCache == FnIdle /\ AppFresh

NextCache ==
    \/ Tick(CacheClockStep, MaxCacheClock * CacheClockStep)
    \/ \E key \in CacheKeys : \E data \in CacheData : \E ttlMs \in CacheTtls :
           CacheSet(key, data, ttlMs)
    \/ \E key \in CacheKeys : CacheGet(key)
    \/ \E key \in CacheKeys : CacheGetStale(key)
    \/ \E key \in CacheKeys : CacheHas(key)
    \/ CacheGetStats
    \/ \E key \in CacheKeys : CacheClear(key)
    \/ \E pattern \in CachePatterns : CacheClearPattern(pattern)
    \/ CacheClearAll

SpecCache == InitCache /\ [][NextCache]_vars

(***************************************************************************)
(* CryptoService.fetchPrice and WeatherService.fetchWeather                *)
(***************************************************************************)
CryptoCacheTtl  == 30000
WeatherCacheTtl == 900000

CacheTtlOf(service) == IF service = "crypto" THEN CryptoCacheTtl ELSE WeatherCacheTtl

\* Math.round(lat * 100) / 100 of a latitude given in thousandths of a degree, in
\* hundredths of a degree
roundCoordinate(milli) == (milli + 5) \div 10

\* the cache key of a call: the coin id, or the rounded coordinate
keyOf(service, arg) ==
    IF service = "crypto" THEN CacheKey(service, arg)
    ELSE CacheKey(service, roundCoordinate(arg))

NoPromise == 0

\* a lookup that never finds the request in flight
pendingRequestsGetNothing(pending, key) == NoPromise

\* this.pendingRequests.get(cacheKey); the two services' maps have disjoint keys and
\* are kept as one
pendingRequestsGet(pending, key) ==
    IF key \in DOMAIN pending THEN pending[key] ELSE NoPromise

pendingRequestsSet(pending, key, promise) ==
    [k \in DOMAIN pending \cup {key} |-> IF k = key THEN promise ELSE pending[k]]

\* a finally block that leaves the registration in place
pendingRequestsDeleteNothing(pending, key) == pending

pendingRequestsDelete(pending, key) == [k \in DOMAIN pending \ {key} |-> pending[k]]

\* a fallback that ignores an expired entry
performFetchFreshFallback(service, key, c, response, t) ==
    IF response.ok
    THEN [result |-> response.data,
          cache |-> cacheManagerSet(c, key, response.data, CacheTtlOf(service), t)]
    ELSE IF service = "crypto"
    THEN [result |-> cacheManagerGetFresh(c, key, t), cache |-> c]
    ELSE [result |-> "neutral", cache |-> c]

\* the value a performFetch / fetchWeatherFromAPI call resolves to, and the cache
\* after it: a response is cached; a failed price fetch falls back to the stale
\* entry or null, a failed weather fetch to neutral weather
performFetch(service, key, c, response, t) ==
    IF response.ok
    THEN [result |-> response.data,
          cache |-> cacheManagerSet(c, key, response.data, CacheTtlOf(service), t)]
    ELSE IF service = "crypto"
    THEN [result |-> cacheManagerGetStale(c, key), cache |-> c]
    ELSE [result |-> "neutral", cache |-> c]

(***************************************************************************)
(* SpecFetch: fetchPrice and fetchWeather called at any times, the network *)
(* answering in any order                                                  *)
(***************************************************************************)
MaxCalls      == 3       \* calls of fetchPrice / fetchWeather followed
FetchClockStep == 40000  \* ms the clock advances in one step
MaxFetchClock == 1       \* clock steps followed

\* a coin, and two positions whose coordinates round to the same key
FetchArgs == {<<"crypto", 1>>, <<"weather", 1231>>, <<"weather", 1234>>}
FetchResponses == {[ok |-> FALSE, data |-> Null], [ok |-> TRUE, data |-> "a"],
                   [ok |-> TRUE, data |-> "b"]}

FetchFrame ==
    UNCHANGED <<moodIn, moodOut, evoIn, evoOut, memVars, diskVars, now, pendingCheer,
                fires, entered, unseen, callsSinceStageChange, cheerResult, cheerSettled,
                judgeVars, cooldownSet, cacheSet,
                generatedIds, petIdentity, cryptoUpdates>>

\* the promises whose fetch has not settled
InFlight(ps, key) == {p \in DOMAIN ps : ps[p].key = key /\ ~ps[p].settled}

\* fetchPrice(coinId) / fetchWeather(lat, lon) up to the await
Fetch(service, arg) ==
    /\ Len(callers) < MaxCalls
    /\ \E key \in {keyOf(service, arg)} :
       \E cached \in {cacheManagerGet(cache, key, now)} :
       \E pendingRequest \in {pendingRequestsGet(pendingRequests, key)} :
           /\ callIn' = [fn |-> "fetch", key |-> key]
           /\ IF cached # Null
              THEN /\ callers' = Append(callers, [key |-> key, how |-> "cached",
                                                  promise |-> NoPromise, result |-> cached])
                   /\ UNCHANGED <<promises, pendingRequests>>
              ELSE IF pendingRequest # NoPromise
              THEN /\ callers' = Append(callers, [key |-> key, how |-> "joined",
                                                  promise |-> pendingRequest,
                                                  result |-> promises[pendingRequest].result])
                   /\ UNCHANGED <<promises, pendingRequests>>
              ELSE /\ promises' = Append(promises, [key |-> key, service |-> service,
                                                    settled |-> FALSE, result |-> "awaiting"])
                   /\ pendingRequests' =
                          pendingRequestsSet(pendingRequests, key, Len(promises) + 1)
                   /\ callers' = Append(callers, [key |-> key, how |-> "started",
                                                  promise |-> Len(promises) + 1,
                                                  result |-> "awaiting"])
    /\ callOut' = callers'[Len(callers')]
    /\ op' = "fetch"
    /\ UNCHANGED cache
    /\ FetchFrame

\* the network answers the request of promise p: performFetch runs to its end, the
\* awaiting callers resume, and the first caller's finally block runs
FetchSettles(p, response) ==
    /\ p \in DOMAIN promises
    /\ ~promises[p].settled
    /\ \E r \in {performFetch(promises[p].service, promises[p].key, cache, response, now)} :
           /\ cache' = r.cache
           /\ promises' = [promises EXCEPT ![p] = [@ EXCEPT !.settled = TRUE,
                                                            !.result = r.result]]
           /\ callers' = [i \in DOMAIN callers |->
                            IF callers[i].promise = p
                            THEN [callers[i] EXCEPT !.result = r.result]
                            ELSE callers[i]]
           /\ callOut' = [result |-> r.result]
    /\ pendingRequests' = pendingRequestsDelete(pendingRequests, promises[p].key)
    /\ callIn' = [fn |-> "settle", key |-> promises[p].key, promise |-> p, ok |-> response.ok]
    /\ op' = "settle"
    /\ FetchFrame

\* cryptoService.clearCache(coinId) / weatherService.clearCache(lat, lon)
ClearCache(service, arg) ==
    /\ cache' = cacheManagerClear(cache, keyOf(service, arg))
    /\ callIn' = [fn |-> "clearCache", key |-> keyOf(service, arg)]
    /\ callOut' = NoResult
    /\ op' = "clearCache"
    /\ UNCHANGED <<pendingRequests, promises, callers>>
    /\ FetchFrame

InitFetch == FnIdle /\ AppFresh

NextFetch ==
    \/ Tick(FetchClockStep, MaxFetchClock * FetchClockStep)
    \/ \E a \in FetchArgs : Fetch(a[1], a[2])
    \/ \E p \in 1..MaxCalls : \E response \in FetchResponses : FetchSettles(p, response)
    \/ \E a \in FetchArgs : ClearCache(a[1], a[2])

SpecFetch == InitFetch /\ [][NextFetch]_vars

(***************************************************************************)
(* SpecPerformFetch: CryptoService.performFetch run against any content of *)
(* the shared cache                                                        *)
(***************************************************************************)
\* performFetch(cacheKey, coinId) from its call to its return
PerformFetch(coinId, response) ==
    /\ \E key \in {keyOf("crypto", coinId)} :
       \E r \in {performFetch("crypto", key, cache, response, now)} :
           /\ cache' = r.cache
           /\ callIn' = [fn |-> "performFetch", key |-> key, ok |-> response.ok]
           /\ callOut' = [result |-> r.result]
    /\ op' = "performFetch"
    /\ UNCHANGED cacheSet
    /\ CacheFrame

InitPerformFetch == FnIdle /\ AppFresh

NextPerformFetch ==
    \/ Tick(FetchClockStep, MaxFetchClock * FetchClockStep)
    \/ \E key \in CacheKeys : \E data \in CacheData : \E ttlMs \in CacheTtls :
           CacheSet(key, data, ttlMs)
    \/ \E response \in FetchResponses : PerformFetch(1, response)

SpecPerformFetch == InitPerformFetch /\ [][NextPerformFetch]_vars

(***************************************************************************)
(* ErrorHandler.retryWithBackoff                                           *)
(***************************************************************************)
DefaultMaxRetries        == 3
DefaultInitialDelay      == 1000
DefaultMaxDelay          == 8000
DefaultBackoffMultiplier == 2

\* the destructuring of options with its defaults
retryOptions(options) ==
    [maxRetries        |-> IF options.maxRetries.def THEN options.maxRetries.v
                           ELSE DefaultMaxRetries,
     initialDelay      |-> IF options.initialDelay.def THEN options.initialDelay.v
                           ELSE DefaultInitialDelay,
     maxDelay          |-> IF options.maxDelay.def THEN options.maxDelay.v
                           ELSE DefaultMaxDelay,
     backoffMultiplier |-> IF options.backoffMultiplier.def THEN options.backoffMultiplier.v
                           ELSE DefaultBackoffMultiplier]

RECURSIVE MathPow(_, _)
MathPow(base, exponent) == IF exponent = 0 THEN 1 ELSE base * MathPow(base, exponent - 1)

\* the delay without the cap of maxDelay
retryDelayUncapped(o, attempt) == o.initialDelay * MathPow(o.backoffMultiplier, attempt)

retryDelay(o, attempt) ==
    Min(o.initialDelay * MathPow(o.backoffMultiplier, attempt), o.maxDelay)

\* the loop at its entry and after a wait: the next attempt, or the throw after the loop
retryLoop(st, o, attempt) ==
    IF attempt <= o.maxRetries
    THEN [st EXCEPT !.status = "running", !.attempt = attempt]
    ELSE [st EXCEPT !.status = "thrown", !.attempt = attempt,
                    !.result = IF st.lastError = NoResult
                               THEN [error |-> "Retry failed"] ELSE st.lastError]

retryEnter(o) ==
    retryLoop([status |-> "called", attempt |-> 0, invocations |-> 0, waits |-> <<>>,
               lastError |-> NoResult, result |-> NoResult], o, 0)

\* one more attempt than maxRetries allows
retryAttemptOneMore(st, o, ok) ==
    IF ok
    THEN [st EXCEPT !.status = "returned", !.invocations = @ + 1,
                    !.result = [value |-> st.invocations + 1]]
    ELSE IF st.attempt = o.maxRetries + 1
    THEN [st EXCEPT !.status = "thrown", !.invocations = @ + 1,
                    !.lastError = [error |-> st.invocations + 1],
                    !.result = [error |-> st.invocations + 1]]
    ELSE [st EXCEPT !.status = "running", !.invocations = @ + 1, !.attempt = @ + 1,
                    !.lastError = [error |-> st.invocations + 1]]

\* one pass of the loop body: fn is invoked and returns (ok) or throws; its value and
\* its error are named by the number of the invocation
retryAttempt(st, o, ok) ==
    IF ok
    THEN [st EXCEPT !.status = "returned", !.invocations = @ + 1,
                    !.result = [value |-> st.invocations + 1]]
    ELSE IF st.attempt = o.maxRetries
    THEN [st EXCEPT !.status = "thrown", !.invocations = @ + 1,
                    !.lastError = [error |-> st.invocations + 1],
                    !.result = [error |-> st.invocations + 1]]
    ELSE [st EXCEPT !.status = "waiting", !.invocations = @ + 1,
                    !.lastError = [error |-> st.invocations + 1],
                    !.waits = Append(@, retryDelay(o, st.attempt))]

(***************************************************************************)
(* SpecRetry: retryWithBackoff with any options and any outcomes of fn     *)
(***************************************************************************)
MaxRetriesTried == 3   \* largest maxRetries passed

RetryOptionValues ==
    [maxRetries        : {Undefined} \cup {Some(n) : n \in (-1)..MaxRetriesTried},
     initialDelay      : {Undefined, Some(3000)},
     maxDelay          : {Undefined, Some(5000)},
     backoffMultiplier : {Undefined, Some(1), Some(3)}]

RetryFrame == UNCHANGED <<moodIn, moodOut, evoIn, evoOut, memVars, diskVars, pendingCheer,
                          fires, entered, unseen, callsSinceStageChange, cheerResult,
                          cheerSettled, judgeVars, svcVars>>

\* retryWithBackoff(fn, options) is called
InitRetry ==
    /\ AppFresh
    /\ moodIn = NoArgs /\ moodOut = NoResult
    /\ evoIn = NoArgs /\ evoOut = NoResult
    /\ \E options \in RetryOptionValues :
           /\ callIn = retryOptions(options)
           /\ callOut = retryEnter(retryOptions(options))

\* fn is invoked and settles
RetryAttempt(ok) ==
    /\ callOut.status = "running"
    /\ callOut' = retryAttempt(callOut, callIn, ok)
    /\ op' = "retryAttempt"
    /\ UNCHANGED <<callIn, now>>
    /\ RetryFrame

\* the timer of the wait fires
RetryTimer ==
    /\ callOut.status = "waiting"
    /\ now' = now + callOut.waits[Len(callOut.waits)]
    /\ callOut' = retryLoop(callOut, callIn, callOut.attempt + 1)
    /\ op' = "retryTimer"
    /\ UNCHANGED callIn
    /\ RetryFrame

NextRetry ==
    \/ \E ok \in BOOLEAN : RetryAttempt(ok)
    \/ RetryTimer

SpecRetry == InitRetry /\ [][NextRetry]_vars

\* every invocation of fn settles and every timer fires
SpecRetryLive == SpecRetry /\ WF_vars(NextRetry)

(***************************************************************************)
(* storage at the level of the stored text: JSON values, loadPetState,     *)
(* validateAndMergeState, savePetState                                     *)
(***************************************************************************)
JNull       == [null |-> TRUE]
JNum(h)     == [num |-> h]        \* a number, given in halves: JNum(5) is 2.5
JStr(x)     == [str |-> x]
JBool(b)    == [bool |-> b]
JObj(o)     == [obj |-> o]
JUuid(n)    == [uuid |-> n]       \* the string the n-th generateId call returned; no two alike
JsUndefined == [undefined |-> TRUE]
JsNaN       == [nan |-> TRUE]

IsNum(v) == DOMAIN v = {"num"}
IsObj(v) == DOMAIN v = {"obj"}

\* !v is false
Truthy(v) ==
    IF DOMAIN v = {"num"} THEN v.num # 0
    ELSE IF DOMAIN v = {"str"} THEN v.str # ""
    ELSE IF DOMAIN v = {"bool"} THEN v.bool
    ELSE DOMAIN v = {"uuid"} \/ DOMAIN v = {"obj"}

\* o.f
Get(o, f) == IF f \in DOMAIN o THEN o[f] ELSE JsUndefined

\* { ...a, ...b }
Spread(a, b) == [f \in DOMAIN a \cup DOMAIN b |-> IF f \in DOMAIN b THEN b[f] ELSE a[f]]

\* what localStorage.getItem(STORAGE_KEY) returns
StoredMissing == [missing |-> TRUE]     \* null
StoredEmpty   == [empty |-> TRUE]       \* ''
StoredGarbage == [garbage |-> TRUE]     \* a text JSON.parse throws on
StoredJson(v) == [json |-> v]           \* the text of the JSON value v

\* JSON.stringify of an object: undefined fields are left out, NaN becomes null
jsonStringify(o) ==
    StoredJson(JObj([f \in {g \in DOMAIN o : o[g] # JsUndefined} |->
                        IF o[f] = JsNaN THEN JNull ELSE o[f]]))

\* getDefaultPetState with an id that is not fresh
getDefaultPetStateSameId(n, t) ==
    [id |-> JUuid(1), createdAt |-> JNum(2 * t),
     moodLevel |-> JNum(6), moodState |-> JStr("neutral"),
     selectedCoin |-> JStr("bitcoin"), coinSymbol |-> JStr("BTC"),
     evolutionStage |-> JNum(2), stageName |-> JStr("Baby"),
     ageSeconds |-> JNum(0), interactionCount |-> JNum(0), schadenfreudeCount |-> JNum(0),
     comedyAttempts |-> JNum(0), comedySuccesses |-> JNum(0)]

\* getDefaultPetState() when generateId() is called for the n-th time, at time t
getDefaultPetStateAt(n, t) ==
    [id |-> JUuid(n), createdAt |-> JNum(2 * t),
     moodLevel |-> JNum(6), moodState |-> JStr("neutral"),
     selectedCoin |-> JStr("bitcoin"), coinSymbol |-> JStr("BTC"),
     evolutionStage |-> JNum(2), stageName |-> JStr("Baby"),
     ageSeconds |-> JNum(0), interactionCount |-> JNum(0), schadenfreudeCount |-> JNum(0),
     comedyAttempts |-> JNum(0), comedySuccesses |-> JNum(0)]

validateAndMergeStateOf(parsed, defaults) ==
    IF ~IsObj(parsed) THEN defaults
    ELSE LET obj == parsed.obj
             level == Get(obj, "moodLevel")
             state == Get(obj, "moodState")
             stage == Get(obj, "evolutionStage")
             moodLevelV == IF IsNum(level) /\ level.num >= 2 /\ level.num <= 10
                           THEN level ELSE defaults.moodLevel
             moodStateV == IF DOMAIN state = {"str"} /\ state.str \in MoodStates
                           THEN state ELSE defaults.moodState
             evolutionStageV == IF IsNum(stage) /\ stage.num >= 2 /\ stage.num <= 6
                                THEN stage ELSE defaults.evolutionStage
         IN  [f \in DOMAIN defaults \cup DOMAIN obj |->
                 IF f = "moodLevel" THEN moodLevelV
                 ELSE IF f = "moodState" THEN moodStateV
                 ELSE IF f = "evolutionStage" THEN evolutionStageV
                 ELSE IF f \in DOMAIN obj THEN obj[f]
                 ELSE defaults[f]]

\* loadPetState(); every path of it calls getDefaultPetState once
loadPetStateOf(stored, n, t) ==
    IF stored = StoredMissing \/ stored = StoredEmpty THEN getDefaultPetStateAt(n, t)
    ELSE IF stored = StoredGarbage THEN getDefaultPetStateAt(n, t)
    ELSE validateAndMergeStateOf(stored.json, getDefaultPetStateAt(n, t))

\* savePetState merging the partial state into the defaults, not into the stored record
savePetStateOverDefaults(stored, state, n, t) ==
    LET updated == Spread(getDefaultPetStateAt(n + 1, t), state)
    IN  [stored |-> jsonStringify(updated), generated |-> 1]

\* savePetState(state): the text written, and the number of generateId calls made
savePetStateOf(stored, state, n, t) ==
    LET existing == loadPetStateOf(stored, n + 1, t)
        updated  == Spread(existing, state)
        needsId  == ~Truthy(Get(updated, "id"))
        withId   == IF needsId THEN Spread(updated, [id |-> JUuid(n + 2)]) ELSE updated
        withBoth == IF ~Truthy(Get(withId, "createdAt"))
                    THEN Spread(withId, [createdAt |-> JNum(2 * t)]) ELSE withId
    IN  [stored |-> jsonStringify(withBoth),
         generated |-> IF needsId THEN 2 ELSE 1]

(***************************************************************************)
(* SpecStore: loads, saves and clears on any stored text                   *)
(***************************************************************************)
MaxGenerated   == 4      \* generateId calls followed
StoreClockStep == 1000   \* ms the clock advances in one step
MaxStoreClock  == 1      \* clock steps followed

\* the three validated fields, each absent, valid, of the wrong type or out of range
StoredMoodFields ==
    {m \cup st \cup e :
        m  \in {{}, {<<"moodLevel", JNum(8)>>}, {<<"moodLevel", JNum(5)>>},
                {<<"moodLevel", JNum(12)>>}, {<<"moodLevel", JStr("5")>>}},
        st \in {{}, {<<"moodState", JStr("sad")>>}, {<<"moodState", JStr("angry")>>}},
        e  \in {{}, {<<"evolutionStage", JNum(4)>>}, {<<"evolutionStage", JNum(3)>>},
                {<<"evolutionStage", JNum(8)>>}}}

\* the other fields: none; an identity and a counter; a falsy identity; an unknown field
StoredOtherFields ==
    {{},
     {<<"id", JStr("stored-id")>>, <<"createdAt", JNum(2000)>>, <<"interactionCount", JNum(14)>>},
     {<<"id", JStr("")>>, <<"createdAt", JNum(0)>>},
     {<<"legacyField", JStr("x")>>, <<"id", JStr("stored-id")>>, <<"createdAt", JNum(2000)>>}}

\* the object with the given field-value pairs
ObjectOf(pairs) ==
    [f \in {p[1] : p \in pairs} |-> (CHOOSE p \in pairs : p[1] = f)[2]]

StoredContents ==
    {StoredMissing, StoredEmpty, StoredGarbage, StoredJson(JNull), StoredJson(JNum(10)),
     StoredJson(JStr("happy")), StoredJson(JBool(TRUE))}
    \cup {StoredJson(JObj(ObjectOf(a \cup b))) : a \in StoredMoodFields, b \in StoredOtherFields}

\* partial states passed to savePetState
SavePartials ==
    {[moodLevel |-> JNum(8), moodState |-> JStr("happy")],
     [moodLevel |-> JsNaN, moodState |-> JStr("neutral")],
     [moodLevel |-> JNum(14)],
     [evolutionStage |-> JNum(4), interactionCount |-> JNum(2)],
     [comedyCooldownUntil |-> JsUndefined, ageSeconds |-> JNum(2)]}

StoreFrame ==
    UNCHANGED <<moodIn, moodOut, evoIn, evoOut, memVars, cooldowns, pendingCheer, fires,
                entered, unseen, callsSinceStageChange, cheerResult, cheerSettled,
                judgeVars, cache, pendingRequests, promises, callers, cooldownSet, cacheSet,
                cryptoUpdates>>

IdentityOf(record) == [id |-> Get(record, "id"), createdAt |-> Get(record, "createdAt")]

LoadPetState ==
    /\ generatedIds + 1 <= MaxGenerated
    /\ \E record \in {loadPetStateOf(store, generatedIds + 1, now)} :
           /\ callOut' = [record |-> record]
           /\ petIdentity' = IF petIdentity = NoRecord THEN IdentityOf(record)
                             ELSE petIdentity
    /\ generatedIds' = generatedIds + 1
    /\ callIn' = [fn |-> "loadPetState", stored |-> store]
    /\ op' = "loadPetState"
    /\ UNCHANGED <<store, now>>
    /\ StoreFrame

SavePetState(state) ==
    /\ generatedIds + 2 <= MaxGenerated
    /\ \E r \in {savePetStateOf(store, state, generatedIds, now)} :
           /\ store' = r.stored
           /\ generatedIds' = generatedIds + r.generated
           /\ callOut' = [record |-> r.stored.json.obj]
           /\ petIdentity' = IF petIdentity = NoRecord THEN IdentityOf(r.stored.json.obj)
                             ELSE petIdentity
    /\ callIn' = [fn |-> "savePetState", stored |-> store, state |-> state]
    /\ op' = "savePetState"
    /\ UNCHANGED now
    /\ StoreFrame

ClearPetState ==
    /\ store' = StoredMissing
    /\ petIdentity' = NoRecord
    /\ callIn' = [fn |-> "clearPetState", stored |-> store]
    /\ callOut' = NoResult
    /\ op' = "clearPetState"
    /\ UNCHANGED <<now, generatedIds>>
    /\ StoreFrame

StoreTick ==
    /\ now + StoreClockStep <= Epoch + MaxStoreClock * StoreClockStep
    /\ now' = now + StoreClockStep
    /\ op' = "Tick"
    /\ UNCHANGED <<fnVars, store, generatedIds, petIdentity, cryptoUpdates>>
    /\ StoreFrame

InitStore ==
    /\ FnIdle
    /\ AppFreshExceptStore
    /\ store \in StoredContents

NextStore ==
    \/ LoadPetState
    \/ \E state \in SavePartials : SavePetState(state)
    \/ ClearPetState
    \/ StoreTick

SpecStore == InitStore /\ [][NextStore]_vars

(***************************************************************************)
(* SpecResetAll: the storage module's reset next to the cooldown manager   *)
(***************************************************************************)
MaxResetClock == 2     \* clock steps followed

hasPetState(stored) == stored # StoredMissing /\ stored # StoredEmpty

resetAllPetData(stored) == StoredMissing

\* what the store may hold when the reset is called
ResetStoredContents ==
    {StoredMissing, StoredEmpty, StoredGarbage,
     StoredJson(JObj([id |-> JStr("stored-id"), createdAt |-> JNum(2000),
                      moodLevel |-> JNum(8), moodState |-> JStr("happy")]))}

ResetAllPetData ==
    /\ store' = resetAllPetData(store)
    /\ petIdentity' = NoRecord
    /\ callIn' = [fn |-> "resetAllPetData", stored |-> store]
    /\ callOut' = NoResult
    /\ op' = "resetAllPetData"
    /\ UNCHANGED <<now, generatedIds>>
    /\ StoreFrame

ClearAllCooldowns ==
    /\ cooldowns' = clearAllCooldowns(cooldowns)
    /\ cooldownSet' = <<>>
    /\ callIn' = [fn |-> "clearAllCooldowns"]
    /\ callOut' = NoResult
    /\ op' = "clearAllCooldowns"
    /\ CooldownFrame

InitResetAll ==
    /\ FnIdle
    /\ AppFreshExceptStore
    /\ store \in ResetStoredContents

NextResetAll ==
    \/ Tick(CooldownClockStep, MaxResetClock * CooldownClockStep)
    \/ \E featureId \in FeatureIds : \E durationSeconds \in 0..MaxDuration :
           SetCooldown(featureId, durationSeconds)
    \/ \E state \in SavePartials : SavePetState(state)
    \/ ResetAllPetData
    \/ ClearAllCooldowns

SpecResetAll == InitResetAll /\ [][NextResetAll]_vars

(***************************************************************************)
(* SpecAge: the age of the pet over page loads, interval ticks and time    *)
(* that passes while the page is closed                                    *)
(***************************************************************************)
AgeTickMs       == 1000   \* period of the age interval, ms
AwayMs          == 2500   \* ms that pass in one step without a tick
MaxAgeClock     == 7000   \* ms the clock is followed
MaxAgeGenerated == 14     \* generateId calls followed
CreatedBefore   == 3000   \* ms before the start at which a stored pet was created

\* the number a JSON value stands for in "value || 0"
NumberOrZero(v) == IF IsNum(v) THEN v.num \div 2 ELSE 0

\* the state the auto-save effect passes to savePetState; the pet has no price
\* and no weather reading, and no cooldown is stored
autoSaveState(age) ==
    [selectedCoin |-> JStr("bitcoin"), coinSymbol |-> JStr("BTC"),
     currentPrice |-> JsUndefined, priceChange24h |-> JsUndefined,
     lastPriceUpdate |-> JsUndefined,
     moodLevel |-> JNum(2 * moodLevel), moodState |-> JStr(petState.mood),
     weatherCondition |-> JsUndefined, weatherMoodModifier |-> JsUndefined,
     lastWeatherUpdate |-> JsUndefined,
     evolutionStage |-> JNum(2 * petState.evolutionStage), stageName |-> JStr("Baby"),
     ageSeconds |-> JNum(2 * age), interactionCount |-> JNum(2 * interactionCount),
     schadenfreudeCount |-> JNum(2 * schadenfreudeCount),
     comedyAttempts |-> JNum(2 * comedyAttempts),
     comedySuccesses |-> JNum(2 * comedySuccesses),
     schadenfreudeCooldownUntil |-> JsUndefined, comedyCooldownUntil |-> JsUndefined]

\* the age effect's initial age with the stored age left out
initialAgeElapsedOnly(savedState, t) ==
    IF Truthy(Get(savedState, "createdAt"))
    THEN (t - NumberOrZero(savedState.createdAt)) \div 1000
    ELSE NumberOrZero(Get(savedState, "ageSeconds"))

\* the age after the mount effect of the age tracker has run
initialAge(savedState, t) ==
    LET savedAge == NumberOrZero(Get(savedState, "ageSeconds"))
    IN  IF Truthy(Get(savedState, "createdAt"))
        THEN Max(savedAge, (t - NumberOrZero(savedState.createdAt)) \div 1000)
        ELSE savedAge

\* stored pets: none; one created CreatedBefore ms ago with one second of age;
\* one written without createdAt
AgeStoredContents ==
    {StoredMissing,
     StoredJson(JObj([id |-> JStr("stored-id"), createdAt |-> JNum(2 * (Epoch - CreatedBefore)),
                      moodLevel |-> JNum(6), moodState |-> JStr("neutral"),
                      evolutionStage |-> JNum(2), ageSeconds |-> JNum(2)])),
     StoredJson(JObj([moodLevel |-> JNum(6), moodState |-> JStr("neutral"),
                      ageSeconds |-> JNum(10)]))}

AgeFrame ==
    UNCHANGED <<moodIn, moodOut, evoIn, evoOut, petState, moodLevel, interactionCount,
                schadenfreudeCount, comedyAttempts, comedySuccesses,
                manualEvolutionOverride, priceData, prevPriceChangeRef, evoRefs,
                cooldowns, pendingCheer, fires, entered, unseen, callsSinceStageChange,
                cheerResult, cheerSettled, judgeVars, cache, pendingRequests, promises,
                callers, cooldownSet, cacheSet, petIdentity, cryptoUpdates>>

\* the page is loaded: first render from the stored pet, auto-save effect, age
\* effect, and the render and auto-save that setAgeSeconds(initialAge) causes
AgeMount ==
    /\ generatedIds + 6 <= MaxAgeGenerated
    /\ \E savedState \in {loadPetStateOf(store, generatedIds + 1, now)} :
       \E first \in {savePetStateOf(store,
                                    autoSaveState(NumberOrZero(Get(savedState, "ageSeconds"))),
                                    generatedIds + 1, now)} :
       \E age \in {initialAge(savedState, now)} :
           /\ ageSeconds' = age
           /\ IF age = NumberOrZero(Get(savedState, "ageSeconds"))
              THEN /\ store' = first.stored
                   /\ generatedIds' = generatedIds + 1 + first.generated
              ELSE \E second \in {savePetStateOf(first.stored, autoSaveState(age),
                                                 generatedIds + 2 + first.generated, now)} :
                       /\ store' = second.stored
                       /\ generatedIds' = generatedIds + 2 + first.generated + second.generated
           /\ callIn' = [fn |-> "mount", stored |-> store]
           /\ callOut' = [savedState |-> savedState]
    /\ op' = "AgeMount"
    /\ UNCHANGED now
    /\ AgeFrame

\* the interval fires a second later: setAgeSeconds(prev + 1), render, auto-save
AgeInterval ==
    /\ op # "init"
    /\ now + AgeTickMs <= Epoch + MaxAgeClock
    /\ generatedIds + 3 <= MaxAgeGenerated
    /\ now' = now + AgeTickMs
    /\ ageSeconds' = ageSeconds + 1
    /\ \E saved \in {savePetStateOf(store, autoSaveState(ageSeconds + 1),
                                    generatedIds + 1, now + AgeTickMs)} :
           /\ store' = saved.stored
           /\ generatedIds' = generatedIds + 1 + saved.generated
    /\ callIn' = [fn |-> "interval", stored |-> store]
    /\ callOut' = NoResult
    /\ op' = "AgeInterval"
    /\ AgeFrame

\* time passes without a tick: the page is closed or suspended
AgeAway ==
    /\ now + AwayMs <= Epoch + MaxAgeClock
    /\ now' = now + AwayMs
    /\ op' = IF op = "init" THEN "init" ELSE "AgeAway"
    /\ UNCHANGED <<callIn, callOut, ageSeconds, store, generatedIds>>
    /\ AgeFrame

InitAge ==
    /\ FnIdle
    /\ AppFreshExceptStore
    /\ store \in AgeStoredContents

NextAge == AgeMount \/ AgeInterval \/ AgeAway

SpecAge == InitAge /\ [][NextAge]_vars

(***************************************************************************)
(* SpecResetInFlight: the pet is reset while cheer-ups and jokes are       *)
(* awaiting their answers                                                  *)
(***************************************************************************)
MaxResetFlightClock == 1   \* clock steps followed

\* a market with a worse coin, and one in which no price can be fetched
ResetMarkets ==
    {[current |-> PriceOf(0), others |-> [i \in 1..NumOthers |-> PriceOf(-1)]],
     [current |-> NoPrice, others |-> [i \in 1..NumOthers |-> NoPrice]]}

InitResetInFlight == FnIdle /\ AppFresh

NextResetInFlight ==
    \/ Tick(ReloadClockStep, MaxResetFlightClock * ReloadClockStep)
    \/ HandleCheerUp
    \/ \E i \in 1..MaxPending : \E market \in ResetMarkets : SettleCheerUp(i, market)
    \/ HandleComedySubmit(ValidJoke)
    \/ \E i \in 1..MaxPendingJokes : SettleJoke(i, [ok |-> TRUE, raw |-> 7])
    \/ HandleReset

SpecResetInFlight == InitResetInFlight /\ [][NextResetInFlight]_vars

(***************************************************************************)
(* SpecCryptoUpdates: the selected coin is switched, polling is switched   *)
(* off and on, the interval fires, fetches settle in any order, and the    *)
(* component unmounts                                                      *)
(***************************************************************************)
MaxPriceFetches == 3    \* fetches started
MaxEffectRuns == 4      \* runs of the polling effect

PriceResponses == {[ok |-> FALSE, price |-> 0], [ok |-> TRUE, price |-> 100]}

CryptoUpdatesFrame ==
    UNCHANGED <<moodIn, moodOut, evoIn, evoOut, memVars, diskVars, envVars, fires,
                entered, unseen, callsSinceStageChange, cheerResult, cheerSettled,
                judgeVars, cache, pendingRequests, promises, callers, cooldownSet,
                cacheSet, generatedIds, petIdentity>>

\* the owner renders the hook with another coinId
SwitchCoin(coinId) ==
    /\ cryptoUpdates.mounted
    /\ coinId # cryptoUpdates.coinId
    /\ cryptoUpdates.scope < MaxEffectRuns
    /\ cryptoUpdates.started < MaxPriceFetches
    /\ cryptoUpdates' = useCryptoUpdatesEffect(cryptoUpdates, coinId, cryptoUpdates.enabled)
    /\ callIn' = [fn |-> "render", coinId |-> coinId, enabled |-> cryptoUpdates.enabled]
    /\ callOut' = NoResult
    /\ op' = "SwitchCoin"
    /\ CryptoUpdatesFrame

\* the owner renders the hook with enabled changed
SetPolling(enabled) ==
    /\ cryptoUpdates.mounted
    /\ enabled # cryptoUpdates.enabled
    /\ cryptoUpdates.scope < MaxEffectRuns
    /\ cryptoUpdates.started < MaxPriceFetches
    /\ cryptoUpdates' = useCryptoUpdatesEffect(cryptoUpdates, cryptoUpdates.coinId, enabled)
    /\ callIn' = [fn |-> "render", coinId |-> cryptoUpdates.coinId, enabled |-> enabled]
    /\ callOut' = NoResult
    /\ op' = "SetPolling"
    /\ CryptoUpdatesFrame

\* the polling interval fires
PollingInterval ==
    /\ cryptoUpdates.mounted
    /\ cryptoUpdates.enabled
    /\ cryptoUpdates.started < MaxPriceFetches
    /\ cryptoUpdates' = fetchPriceStart(cryptoUpdates)
    /\ callIn' = [fn |-> "interval", coinId |-> cryptoUpdates.coinId,
                  enabled |-> cryptoUpdates.enabled]
    /\ callOut' = NoResult
    /\ op' = "PollingInterval"
    /\ CryptoUpdatesFrame

\* cryptoService.fetchPrice settles for the i-th fetch in flight
PriceSettles(i, data) ==
    /\ i \in DOMAIN cryptoUpdates.pending
    /\ cryptoUpdates' = fetchPriceSettle(cryptoUpdates, i, data)
    /\ callIn' = [fn |-> "settle", coinId |-> cryptoUpdates.pending[i].coinId,
                  scope |-> cryptoUpdates.pending[i].scope]
    /\ callOut' = data
    /\ op' = "PriceSettles"
    /\ CryptoUpdatesFrame

Unmount ==
    /\ cryptoUpdates.mounted
    /\ cryptoUpdates' = useCryptoUpdatesUnmount(cryptoUpdates)
    /\ callIn' = [fn |-> "unmount"]
    /\ callOut' = NoResult
    /\ op' = "Unmount"
    /\ CryptoUpdatesFrame

InitCryptoUpdates == FnIdle /\ AppFresh

NextCryptoUpdates ==
    \/ \E coinId \in HookCoins : SwitchCoin(coinId)
    \/ \E enabled \in BOOLEAN : SetPolling(enabled)
    \/ PollingInterval
    \/ \E i \in 1..MaxPriceFetches : \E data \in PriceResponses : PriceSettles(i, data)
    \/ Unmount

SpecCryptoUpdates == InitCryptoUpdates /\ [][NextCryptoUpdates]_vars

(***************************************************************************)
(* SpecHook: useEvolutionCheck under an owner that passes it any props and *)
(* an onEvolution that only records the call (as the hook's tests do)      *)
(***************************************************************************)
HookFrame ==
    UNCHANGED <<fnVars, moodLevel, schadenfreudeCount, comedyAttempts, comedySuccesses,
                priceData, prevPriceChangeRef, diskVars, envVars, entered, unseen,
                cheerResult, cheerSettled, judgeVars, svcVars>>

\* the owner renders the hook with the given props; the effect runs if a dependency
\* has changed
HookRender(stage, age, ic, enabled, name) ==
    \E e \in {IF <<stage, age, ic, enabled>> # <<petState.evolutionStage, ageSeconds,
                                                 interactionCount, ~manualEvolutionOverride>>
              THEN useEvolutionCheckEffect(evoRefs, stage, age, ic, enabled)
              ELSE [refs |-> evoRefs, fired |-> FALSE]} :
        /\ petState' = [petState EXCEPT !.evolutionStage = stage]
        /\ ageSeconds' = age
        /\ interactionCount' = ic
        /\ manualEvolutionOverride' = ~enabled
        /\ evoRefs' = e.refs
        /\ fires' = IF e.fired THEN <<stage>> ELSE <<>>
        /\ callsSinceStageChange' =
               (IF stage # petState.evolutionStage THEN 0 ELSE callsSinceStageChange)
               + (IF e.fired THEN 1 ELSE 0)
        /\ op' = name
        /\ HookFrame

HookAge(age) ==
    /\ age >= ageSeconds
    /\ HookRender(petState.evolutionStage, age, interactionCount,
                  ~manualEvolutionOverride, "HookAge")

HookInteraction ==
    /\ interactionCount < MaxIc
    /\ HookRender(petState.evolutionStage, ageSeconds, interactionCount + 1,
                  ~manualEvolutionOverride, "HookInteraction")

HookStage(stage) ==
    HookRender(stage, ageSeconds, interactionCount, ~manualEvolutionOverride, "HookStage")

HookEnabled(enabled) ==
    HookRender(petState.evolutionStage, ageSeconds, interactionCount, enabled, "HookEnabled")

InitHook == FnIdle /\ AppFresh

NextHook ==
    \/ \E age \in AgeSamples : HookAge(age)
    \/ HookInteraction
    \/ \E stage \in 1..3 : HookStage(stage)
    \/ \E enabled \in BOOLEAN : HookEnabled(enabled)

SpecHook == InitHook /\ [][NextHook]_vars

(***************************************************************************)
(* Claims about calculateMood (specification SpecMood)                     *)
(***************************************************************************)
MoodCalled == moodIn # NoArgs /\ moodOut # NoResult

\* the projection of an integer level onto a mood state, as the data model states it
ProjectionOf(level) ==
    IF level >= 4 THEN "happy" ELSE IF level <= 2 THEN "sad" ELSE "neutral"

\* C1: for every priceChange24h and every weatherModifier the returned moodLevel is
\* an integer in [1,5] and moodState is the projection of that level.
C1_LevelInRangeAndProjected ==
    MoodCalled =>
        /\ moodOut.moodLevel.k = "fin"
        /\ moodOut.moodLevel.v \in {n * Q : n \in 1..5}
        /\ moodOut.moodState = ProjectionOf(moodOut.moodLevel.v \div Q)

\* the reference function of the claim, on finite inputs
RefBase(v) ==
    IF v > 5 * Q THEN 5
    ELSE IF v > 0 THEN 4
    ELSE IF v = 0 THEN 3
    ELSE IF v >= -(5 * Q) THEN 2
    ELSE 1

RefRoundHalfAwayFromZero(s) ==
    IF s >= 0 THEN (s + (Q \div 2)) \div Q ELSE -(((-s) + (Q \div 2)) \div Q)

RefClamp(n) == IF n < 1 THEN 1 ELSE IF n > 5 THEN 5 ELSE n

RefLevel(pv, wv) == RefClamp(RefRoundHalfAwayFromZero(RefBase(pv) * Q + wv))

\* C2: on numeric inputs calculateMood equals the reference function: base level by
\* the fixed breakpoints, plus the modifier, rounded to nearest with halves away from
\* zero, clamped to [1,5]; (4, +0.5) gives 5 and (-4, -0.5) gives 2.
C2_EqualsReference ==
    (MoodCalled /\ IsFinite(moodIn.priceChange24h) /\ IsFinite(moodIn.weatherModifier)) =>
        LET level == RefLevel(moodIn.priceChange24h.v, moodIn.weatherModifier.v)
        IN  /\ moodOut.moodLevel = Whole(level)
            /\ moodOut.moodState = ProjectionOf(level)

\* C2 witness: the call (-4, -0.5) has returned level 2 (1.5 rounds to 2)
C2_Witness ==
    /\ MoodCalled
    /\ moodIn.priceChange24h = Whole(-4)
    /\ moodIn.weatherModifier = Fin(-(Q \div 2))
    /\ moodOut.moodLevel = Whole(2)

\* C3: an invalid priceChange24h (not a number, NaN, +Infinity, -Infinity) yields
\* the fixed fallback {3, neutral}.
C3_InvalidPriceGivesFallback ==
    (MoodCalled /\ ~IsFinite(moodIn.priceChange24h)) =>
        moodOut = [moodLevel |-> Whole(3), moodState |-> "neutral"]

(***************************************************************************)
(* Claims about checkEvolution (specification SpecCheckEvolution)          *)
(***************************************************************************)
EvoCalled == evoIn # NoArgs /\ evoOut # NoResult

EvoInStageName ==
    IF evoIn.evolutionStage.t = "num"
    THEN (CASE evoIn.evolutionStage.n = 1 -> "baby"
            [] evoIn.evolutionStage.n = 2 -> "adult"
            [] OTHER -> "legendary")
    ELSE evoIn.evolutionStage.s

RefAgeMet(stage, a) == (stage = "baby" /\ a >= 300) \/ (stage = "adult" /\ a >= 900)
RefIcMet(stage, i)  == (stage = "baby" /\ i >= 10) \/ (stage = "adult" /\ i >= 25)
RefSuccessor(stage) == IF stage = "baby" THEN "adult" ELSE "legendary"

\* C4: for every stage, age and interaction count, checkEvolution returns the
\* reference decision: shouldEvolve iff the stage's age or interaction threshold is
\* met; then nextStage is the successor and reason is 'age' whenever the age threshold
\* is met, 'interactions' otherwise; else shouldEvolve is false, nextStage and reason null.
C4_CheckEvolutionReference ==
    (EvoCalled /\ evoIn.ageSeconds.def /\ evoIn.interactionCount.def) =>
        LET stage == EvoInStageName
            a     == evoIn.ageSeconds.v
            i     == evoIn.interactionCount.v
        IN  IF RefAgeMet(stage, a) \/ RefIcMet(stage, i)
            THEN evoOut = [shouldEvolve |-> TRUE,
                           nextStage |-> RefSuccessor(stage),
                           reason |-> IF RefAgeMet(stage, a) THEN "age" ELSE "interactions",
                           currentStage |-> stage]
            ELSE evoOut = [shouldEvolve |-> FALSE, nextStage |-> "null",
                           reason |-> "null", currentStage |-> stage]

\* C4 witness: a baby with both thresholds met has been told to evolve for 'age'
C4_Witness ==
    /\ EvoCalled
    /\ evoIn.evolutionStage = NumStage(1)
    /\ evoIn.ageSeconds = Some(300)
    /\ evoIn.interactionCount = Some(10)
    /\ evoOut.shouldEvolve
    /\ evoOut.reason = "age"

(***************************************************************************)
(* Claims about useEvolutionCheck and the evolution stage                  *)
(***************************************************************************)
\* C5: in useEvolutionCheck, while the evolutionStage value stays the same, onEvolution
\* is invoked at most once, however far age or interactions climb past the threshold
\* (specification SpecHook).
C5_AtMostOneCallPerStage == callsSinceStageChange <= 1

\* the call was made, and age and interactions have climbed on past both thresholds
C5_Witness ==
    /\ op = "HookAge"
    /\ callsSinceStageChange = 1
    /\ fires = <<>>
    /\ petState.evolutionStage = 1
    /\ ~manualEvolutionOverride
    /\ ageSeconds > BabyToAdultAge
    /\ interactionCount > BabyToAdultInteractions

\* the threshold of a stage, written from the documented table
RefDue(stage, age, ic) ==
    \/ stage = 1 /\ (age >= 300 \/ ic >= 10)
    \/ stage = 2 /\ (age >= 900 \/ ic >= 25)

CountIn(seq, x) == Cardinality({i \in DOMAIN seq : seq[i] = x})

\* C6: whenever the pet has newly taken a stage value (by an evolution, or by a forced
\* stage change, also one made while automatic evolution was disabled) and the hook
\* runs enabled, an already met threshold of that stage fires onEvolution exactly
\* once; no stage fires twice in a step (specification SpecEvolution).
C6_GuardClearedOnStageChange ==
    /\ \A s \in entered :
           RefDue(s, ageSeconds, interactionCount) => CountIn(fires, s) = 1
    /\ \A s \in 1..3 : CountIn(fires, s) <= 1

\* the pet was forced back to baby while automatic evolution was disabled, with the
\* thresholds of baby and adult both met; on enabling, both fire, once each
C6_Witness ==
    /\ op = "EnableAutoEvolution"
    /\ entered = {1, 2, 3}
    /\ fires = <<1, 2>>
    /\ petState.evolutionStage = 3

\* C7: over any sequence of operations (age ticks, interactions, evolutions, saves,
\* reloads, stage changes through the exposed setter) evolutionStage never decreases,
\* except through the explicit reset (specification SpecEvolution).
C7_StageNeverDecreasesExceptReset ==
    [][petState'.evolutionStage >= petState.evolutionStage \/ op' = "HandleReset"]_vars

(***************************************************************************)
(* Claims about the cheer-up (specification SpecCheer)                     *)
(***************************************************************************)
CooldownActive == "schadenfreude" \in DOMAIN cooldowns /\ cooldowns["schadenfreude"] > now

\* C8: a cheer-up invoked while the schadenfreude cooldown is active is a no-op: it
\* returns null, calls findWorsePerformer for nothing, and changes neither the mood
\* level, the mood state, the cooldown expiry, interactionCount nor schadenfreudeCount.
C8_RejectedCheerUpChangesNothing ==
    [][(op' = "HandleCheerUp" /\ CooldownActive) =>
          /\ cheerResult'.isNull
          /\ pendingCheer' = pendingCheer
          /\ moodLevel' = moodLevel
          /\ petState'.mood = petState.mood
          /\ cooldowns' = cooldowns
          /\ interactionCount' = interactionCount
          /\ schadenfreudeCount' = schadenfreudeCount]_vars

\* C9: when triggerSchadenfreude obtains a non-null comparison, the mood level becomes
\* min(5, level + 1) for the level the invocation was made with, moodState becomes the
\* projection of the new level, the schadenfreude cooldown expires 120 s later, and
\* the comparison is returned.
C9_BoostOnComparison ==
    [][(op' = "SettleCheerUp" /\ ~cheerSettled'.comparison.isNull) =>
          /\ moodLevel' = (IF cheerSettled'.currentMoodLevel + 1 > 5 THEN 5
                           ELSE cheerSettled'.currentMoodLevel + 1)
          /\ petState'.mood = ProjectionOf(moodLevel')
          /\ "schadenfreude" \in DOMAIN cooldowns'
          /\ cooldowns'["schadenfreude"] = now + 120 * 1000
          /\ cheerResult' = cheerSettled'.comparison]_vars

\* a cheer-up made at level 5 has settled with a worse coin: the level is still 5 and
\* the cooldown runs
C9_Witness ==
    /\ op = "SettleCheerUp"
    /\ ~cheerResult.isNull
    /\ cheerSettled.currentMoodLevel = 5
    /\ moodLevel = 5
    /\ CooldownActive

\* C10: when the comparator throws or reports no worse coin, triggerSchadenfreude
\* returns null, leaves the mood unchanged and sets no cooldown: a cooldown that was
\* inactive is still inactive, so the cheer-up may be made again at once.
C10_NullLeavesMoodAndCooldown ==
    [][(op' = "SettleCheerUp" /\ cheerSettled'.comparison.isNull) =>
          /\ cheerResult'.isNull
          /\ moodLevel' = moodLevel
          /\ petState'.mood = petState.mood
          /\ cooldowns' = cooldowns
          /\ ~CooldownActive => ~CooldownActive']_vars

\* a cheer-up has settled on an error of the comparator, and no cooldown is set
C10_Witness ==
    /\ op = "SettleCheerUp"
    /\ cheerResult.isNull
    /\ cheerSettled.comparison.error
    /\ ~CooldownActive
    /\ "schadenfreude" \notin DOMAIN cooldowns
    /\ schadenfreudeCount < MaxCheers

(***************************************************************************)
(* Claims about findWorsePerformer (specification SpecWorse)               *)
(***************************************************************************)
WorseCalled == callIn # NoArgs /\ callIn.fn = "findWorsePerformer" /\ callOut # NoResult

\* the coins other than the current one whose price is known and strictly lower
StrictlyWorse ==
    {c \in COINS \ {callIn.currentCoinId} :
        /\ callIn.prices[c].ok
        /\ callIn.prices[c].change24h < callIn.prices[callIn.currentCoinId].change24h}

\* C11: for every assignment of 24h changes to the catalogue, findWorsePerformer
\* returns a coin other than the current one whose change is strictly lower than the
\* current coin's and the lowest of the compared coins; it returns null when there is
\* no strictly worse coin or the current coin's price is unavailable.
C11_WorstStrictlyLowerOrNull ==
    WorseCalled =>
        IF callIn.currentCoinId \notin COINS
           \/ ~callIn.prices[callIn.currentCoinId].ok
           \/ StrictlyWorse = {}
        THEN callOut.isNull
        ELSE /\ ~callOut.isNull
             /\ callOut.worseCoin \in StrictlyWorse
             /\ callOut.worseCoin # callIn.currentCoinId
             /\ callOut.worseChange = callIn.prices[callOut.worseCoin].change24h
             /\ callOut.worseChange < callIn.prices[callIn.currentCoinId].change24h
             /\ callOut.currentChange = callIn.prices[callIn.currentCoinId].change24h
             /\ \A c \in StrictlyWorse : callOut.worseChange <= callIn.prices[c].change24h

\* the current coin at +2, one coin at -2 and one at +1: the coin at -2 is returned
C11_Witness ==
    /\ WorseCalled
    /\ callIn.currentCoinId = 2
    /\ callIn.prices[2] = PriceOf(2)
    /\ callIn.prices[1] = PriceOf(1)
    /\ callIn.prices[3] = PriceOf(-2)
    /\ ~callOut.isNull
    /\ callOut.worseCoin = 3

(***************************************************************************)
(* Claims about the comedy judge (specifications SpecComedy and SpecJudge) *)
(***************************************************************************)
RefThreshold(mood) ==
    CASE mood = "happy" -> 3 [] mood = "neutral" -> 5 [] mood = "sad" -> 7

\* C12: a joke rated r, submitted while the mood state was m at level l: if
\* r >= threshold(m) the level becomes min(5, l + 1), the mood state its projection
\* and the success counter is incremented; if r < threshold(m) the mood is unchanged;
\* in both cases the comedy cooldown is set to expire 60 s later.  The attempt counter
\* is incremented by the submission and by nothing after it.
C12_RatedJoke ==
    [][/\ (op' = "HandleComedySubmit") => comedyAttempts' = comedyAttempts + 1
       /\ (op' = "SettleJoke" /\ jokeSettled'.ok) =>
            /\ IF jokeSettled'.rating >= RefThreshold(jokeSettled'.currentMood)
               THEN /\ moodLevel' = (IF jokeSettled'.currentMoodLevel + 1 > 5 THEN 5
                                     ELSE jokeSettled'.currentMoodLevel + 1)
                    /\ petState'.mood = ProjectionOf(moodLevel')
                    /\ comedySuccesses' = comedySuccesses + 1
               ELSE /\ moodLevel' = moodLevel
                    /\ petState'.mood = petState.mood
                    /\ comedySuccesses' = comedySuccesses
            /\ "comedy" \in DOMAIN cooldowns'
            /\ cooldowns'["comedy"] = now + 60 * 1000
            /\ comedyAttempts' = comedyAttempts]_vars

\* a joke told to a sad pet was rated 7: the pet is cheered, a success is counted
C12_Witness ==
    /\ op = "SettleJoke"
    /\ jokeSettled.ok
    /\ jokeSettled.currentMood = "sad"
    /\ jokeSettled.currentMoodLevel = 2
    /\ jokeSettled.rating = 7
    /\ moodLevel = 3
    /\ petState.mood = "neutral"
    /\ comedySuccesses = 1
    /\ comedyAttempts = 1

ComedyRemaining(cds, t) ==
    IF "comedy" \in DOMAIN cds /\ cds["comedy"] > t
    THEN -((t - cds["comedy"]) \div 1000) ELSE 0

\* C13: a joke submission that fails with a validation error, a rate-limit rejection
\* or a transport failure mutates nothing: mood, comedy cooldown, throttle timestamp,
\* comedyAttempts, comedySuccesses and interactionCount keep their values.
C13_FailedJokeChangesNothing ==
    [][(op' \in {"HandleComedySubmit", "SettleJoke"}
        /\ jokeResult'.kind \in {"validation", "rateLimit", "transport"}) =>
          /\ moodLevel' = moodLevel
          /\ petState'.mood = petState.mood
          /\ ComedyRemaining(cooldowns', now') = ComedyRemaining(cooldowns, now)
          /\ lastRequestTime' = lastRequestTime
          /\ comedyAttempts' = comedyAttempts
          /\ comedySuccesses' = comedySuccesses
          /\ interactionCount' = interactionCount]_vars

\* C14: a joke text that is empty after trimming or longer than 500 characters is
\* rejected with the validation error whatever the comedy cooldown and the throttle
\* are, and no request is sent for it.
C14_InvalidTextGetsValidationError ==
    [][(op' = "HandleComedySubmit"
        /\ (jokeResult'.text.blank \/ jokeResult'.text.len > 500)) =>
          /\ jokeResult'.kind = "validation"
          /\ pendingJokes' = pendingJokes]_vars

\* C15: after the judge has returned a rating with timestamp t, a valid rateJoke call
\* made before t + 60 s is rejected with the rate-limit error carrying
\* ceil((60000 - elapsed)/1000) seconds, sends no request and leaves the throttle
\* timestamp alone; a call at or after t + 60 s passes the throttle.
C15_ThrottleAfterRating ==
    [][(op' = "RateJoke" /\ lastRatedAt # 0
        /\ ~jokeResult'.text.blank /\ jokeResult'.text.len <= 500) =>
          IF now < lastRatedAt + 60000
          THEN /\ jokeResult'.kind = "rateLimit"
               /\ jokeResult'.remaining = -((-(60000 - (now - lastRatedAt))) \div 1000)
               /\ pendingJokes' = pendingJokes
               /\ lastRequestTime' = lastRequestTime
          ELSE /\ jokeResult'.kind = "pending"
               /\ Len(pendingJokes') = Len(pendingJokes) + 1]_vars

(***************************************************************************)
(* Claims about the cooldown manager (specification SpecCooldown)          *)
(***************************************************************************)
\* max(0, ceil((t0 + 1000*d - t) / 1000)) for the last setCooldown of the id, 0 without one
RefRemaining(featureId, t) ==
    IF featureId \notin DOMAIN cooldownSet THEN 0
    ELSE LET ms == cooldownSet[featureId].t0 + 1000 * cooldownSet[featureId].d - t
             up == IF ms % 1000 = 0 THEN ms \div 1000 ELSE (ms \div 1000) + 1
         IN  IF up > 0 THEN up ELSE 0

\* C16: after setCooldown(id, d) at t0, with no set or clear since, at time t
\* getRemainingCooldown(id) = max(0, ceil((t0 + 1000*d - t)/1000)) and
\* isCooldownActive(id) holds iff that is > 0, that is iff t < t0 + 1000*d; an id that
\* was never set has remaining 0.
C16_RemainingFromLastSet ==
    /\ op = "getRemainingCooldown" =>
           callOut.remaining = RefRemaining(callIn.featureId, now)
    /\ op = "isCooldownActive" =>
           /\ callOut.active <=> RefRemaining(callIn.featureId, now) > 0
           /\ callIn.featureId \in DOMAIN cooldownSet =>
                 (callOut.active <=>
                     now < cooldownSet[callIn.featureId].t0
                           + 1000 * cooldownSet[callIn.featureId].d)
           /\ callIn.featureId \notin DOMAIN cooldownSet => ~callOut.active

\* 1.5 s into a cooldown of 2 s one second remains
C16_Witness ==
    /\ op = "getRemainingCooldown"
    /\ callIn.featureId \in DOMAIN cooldownSet
    /\ cooldownSet[callIn.featureId].d = 2
    /\ now - cooldownSet[callIn.featureId].t0 = 1500
    /\ callOut.remaining = 1

(***************************************************************************)
(* Claims about cooldowns across a reload (specification SpecReload)       *)
(***************************************************************************)
ActiveCooldown(cds, featureId, t) == featureId \in DOMAIN cds /\ cds[featureId] > t

\* C17: a page reload preserves every active cooldown: after initialization its
\* absolute expiry equals the expiry persisted before the reload, so reloads neither
\* lengthen nor shorten a cooldown.
C17_ReloadKeepsExpiry ==
    [][op' = "Reload" =>
         \A featureId \in FeatureIds :
             ActiveCooldown(cooldowns, featureId, now) =>
                 /\ featureId \in DOMAIN cooldowns'
                 /\ cooldowns'[featureId] = cooldowns[featureId]]_vars

FetchKeys == {keyOf(a[1], a[2]) : a \in FetchArgs}

\* C19: per cache key at most one fetch is outstanding in fetchPrice and in
\* fetchWeather: a caller that arrives while a fetch for its key is in flight gets
\* that in-flight promise and sends no request, and all callers of one promise
\* observe the result the first caller observes.
C19_OneFetchPerKey ==
    [][/\ \A key \in FetchKeys : Cardinality(InFlight(promises', key)) <= 1
       /\ (op' = "fetch" /\ callers' # callers /\ InFlight(promises, callIn'.key) # {}) =>
            /\ promises' = promises
            /\ callOut'.how = "joined"
            /\ callOut'.promise \in InFlight(promises, callIn'.key)
       /\ \A i \in DOMAIN callers' : \A j \in DOMAIN callers' :
            (callers'[i].promise # NoPromise /\ callers'[i].promise = callers'[j].promise) =>
                /\ callers'[i].result = callers'[j].result
                /\ callers'[i].result = promises'[callers'[i].promise].result]_vars

\* a second and a third caller joined the first caller's fetch, which then failed
C19_Witness ==
    /\ op = "settle"
    /\ Len(promises) = 1
    /\ Len(callers) = 3
    /\ \A i \in DOMAIN callers : callers[i].promise = 1 /\ callers[i].result = Null
    /\ callers[1].how = "started"
    /\ callers[2].how = "joined"

\* C20: the in-flight registration of a key is removed when its fetch settles, on
\* success and on failure: pendingRequests holds exactly the keys whose fetch is
\* running, each with the running promise, so it is empty when no fetch is running
\* and a later call that misses the cache starts a new fetch.
C20_RegistrationRemovedOnSettle ==
    [][/\ DOMAIN pendingRequests' = {key \in FetchKeys : InFlight(promises', key) # {}}
       /\ \A key \in DOMAIN pendingRequests' :
              pendingRequests'[key] \in InFlight(promises', key)
       /\ op' = "settle" => callIn'.key \notin DOMAIN pendingRequests'
       /\ (op' = "fetch" /\ callers' # callers /\ InFlight(promises, callIn'.key) = {}
           /\ cacheManagerGet(cache, callIn'.key, now) = Null) =>
              /\ callOut'.how = "started"
              /\ Len(promises') = Len(promises) + 1]_vars

\* after a failed fetch and after a successful one whose entry was cleared, a new
\* fetch was started for the same key
C20_Witness ==
    /\ op = "fetch"
    /\ Len(promises) = 3
    /\ \A p \in DOMAIN promises : promises[p].key = callIn.key
    /\ promises[1].settled /\ promises[1].result = Null
    /\ promises[2].settled /\ promises[2].result = "a"
    /\ ~promises[3].settled
    /\ DOMAIN pendingRequests = {callIn.key}

(***************************************************************************)
(* Claims about the price service (SpecFetch and SpecPerformFetch)         *)
(***************************************************************************)
\* C21: a cached price is served without a network call only while it is unexpired:
\* a fetchPrice call made after the entry has expired, with no fetch in flight,
\* starts a new network fetch.
C21_ExpiredEntryIsRefetched ==
    [][(/\ op' = "fetch"
        /\ callers' # callers
        /\ callIn'.key.service = "crypto"
        /\ callIn'.key \in DOMAIN cache
        /\ now > cache[callIn'.key].expires
        /\ InFlight(promises, callIn'.key) = {}) =>
            /\ callOut'.how = "started"
            /\ Len(promises') = Len(promises) + 1]_vars

\* C22: a price fetch that fails resolves to the value cached for the coin, expired
\* or not, when there is one and to null otherwise, and writes nothing to the cache.
C22_FailedFetchFallsBackToCache ==
    [][(op' = "performFetch" /\ ~callIn'.ok) =>
            /\ callOut'.result = (IF callIn'.key \in DOMAIN cache
                                  THEN cache[callIn'.key].data ELSE Null)
            /\ cache' = cache]_vars

\* a failed fetch resolved to the entry that had expired
C22_Witness ==
    /\ op = "performFetch"
    /\ ~callIn.ok
    /\ callIn.key \in DOMAIN cache
    /\ now > cache[callIn.key].expires
    /\ callOut.result = "a"

(***************************************************************************)
(* Claims about retryWithBackoff (SpecRetry and SpecRetryLive)             *)
(***************************************************************************)
RetryDone == callOut.status \in {"returned", "thrown"}

RECURSIVE RefPow(_, _)
RefPow(b, n) == IF n = 0 THEN 1 ELSE b * RefPow(b, n - 1)

RefDelay(o, n) ==
    IF o.initialDelay * RefPow(o.backoffMultiplier, n) < o.maxDelay
    THEN o.initialDelay * RefPow(o.backoffMultiplier, n) ELSE o.maxDelay

\* C24: the wait after failed attempt n (0-indexed, n < maxRetries) is exactly
\* min(initialDelay * multiplier^n, maxDelay): 1000, 2000, 4000 ms for the defaults,
\* never above maxDelay, and no wait follows the final failed attempt.
C24_BackoffDelays ==
    /\ \A i \in DOMAIN callOut.waits :
           /\ callOut.waits[i] = RefDelay(callIn, i - 1)
           /\ callOut.waits[i] <= callIn.maxDelay
           /\ i - 1 < callIn.maxRetries
    /\ (callIn = retryOptions([maxRetries |-> Undefined, initialDelay |-> Undefined,
                               maxDelay |-> Undefined, backoffMultiplier |-> Undefined])
        /\ Len(callOut.waits) = 3) => callOut.waits = <<1000, 2000, 4000>>
    /\ RetryDone => Len(callOut.waits) = Max(0, callOut.invocations - 1)
    /\ callOut.status = "waiting" => Len(callOut.waits) = callOut.invocations
    /\ callOut.status = "running" => Len(callOut.waits) = callOut.invocations

\* with the defaults, four failures were separated by waits of 1, 2 and 4 s; and a
\* delay was cut to maxDelay
C24_Witness ==
    /\ callOut.status = "thrown"
    /\ callOut.waits = <<1000, 2000, 4000>>

(***************************************************************************)
(* pet record storage                                                      *)
(***************************************************************************)
StoredPetStateFields ==
    {"id", "createdAt", "selectedCoin", "coinSymbol", "currentPrice", "priceChange24h",
     "lastPriceUpdate", "moodLevel", "moodState", "weatherCondition", "weatherMoodModifier",
     "lastWeatherUpdate", "evolutionStage", "stageName", "ageSeconds", "interactionCount",
     "schadenfreudeCount", "comedyAttempts", "comedySuccesses", "schadenfreudeCooldownUntil",
     "comedyCooldownUntil", "ftueCompleted"}

\* the stored text does not hold a JSON object
UnusableStore(stored) ==
    \/ stored \in {StoredMissing, StoredEmpty, StoredGarbage}
    \/ "json" \in DOMAIN stored /\ ~IsObj(stored.json)

\* C25: loadPetState returns a record for every content of the store; when the
\* entry is missing, is not JSON or is not a JSON object, the record is the
\* full default record (moodLevel 3, moodState neutral, evolutionStage 1, the
\* other defaults) and its id is the one generateId made in this very call.
C25_DefaultsOnUnusableStore ==
    op = "loadPetState" =>
        /\ {"id", "createdAt", "moodLevel", "moodState", "evolutionStage"}
               \subseteq DOMAIN callOut.record
        /\ UnusableStore(callIn.stored) =>
               callOut.record =
                   [id |-> JUuid(generatedIds), createdAt |-> JNum(2 * now),
                    moodLevel |-> JNum(6), moodState |-> JStr("neutral"),
                    selectedCoin |-> JStr("bitcoin"), coinSymbol |-> JStr("BTC"),
                    evolutionStage |-> JNum(2), stageName |-> JStr("Baby"),
                    ageSeconds |-> JNum(0), interactionCount |-> JNum(0),
                    schadenfreudeCount |-> JNum(0), comedyAttempts |-> JNum(0),
                    comedySuccesses |-> JNum(0)]

C25_Witness ==
    /\ op = "loadPetState"
    /\ callIn.stored = StoredGarbage
    /\ generatedIds = 3
    /\ callOut.record.id = JUuid(3)
    /\ callOut.record.moodLevel = JNum(6)

\* C26: for every stored JSON object the record loadPetState returns has an
\* integer moodLevel in 1..5, a moodState among happy, neutral, sad, and an
\* evolutionStage among 1, 2, 3.
C26_LoadedFieldsAreValid ==
    (op = "loadPetState" /\ ~UnusableStore(callIn.stored)) =>
        /\ callOut.record.moodLevel \in {JNum(2 * n) : n \in 1..5}
        /\ callOut.record.moodState \in {JStr(x) : x \in MoodStates}
        /\ callOut.record.evolutionStage \in {JNum(2 * n) : n \in 1..3}

\* C27: the record loadPetState returns has no field outside the stored pet
\* state schema, and neither has the record a later save writes.
C27_UnknownFieldsDropped ==
    op \in {"loadPetState", "savePetState"} =>
        DOMAIN callOut.record \subseteq StoredPetStateFields

\* a value of field f that survives JSON and the validation of a load
StorableField(f, v) ==
    /\ v # JsNaN
    /\ v # JsUndefined
    /\ f = "moodLevel" => IsNum(v) /\ v.num >= 2 /\ v.num <= 10
    /\ f = "moodState" => v \in {JStr(x) : x \in MoodStates}
    /\ f = "evolutionStage" => IsNum(v) /\ v.num >= 2 /\ v.num <= 6
    /\ f \in {"id", "createdAt"} => Truthy(v)

\* the stored text holds an object with a truthy field f
HasStored(stored, f) ==
    /\ ~UnusableStore(stored)
    /\ f \in DOMAIN stored.json.obj
    /\ Truthy(stored.json.obj[f])

StoredProjectionOf(level) ==
    IF level.num >= 8 THEN JStr("happy")
    ELSE IF level.num <= 4 THEN JStr("sad")
    ELSE JStr("neutral")

\* C29: in every record loadPetState returns, moodState is the projection of
\* moodLevel, whatever the stored content.
C29_LoadedMoodStateIsProjection ==
    op = "loadPetState" =>
        callOut.record.moodState = StoredProjectionOf(callOut.record.moodLevel)

\* C30: once a load or save has yielded the pet's id and createdAt, every later
\* load and save yields the same two values until the record is cleared.
C30_IdentityGeneratedOnce ==
    (op \in {"loadPetState", "savePetState"} /\ petIdentity # NoRecord) =>
        IdentityOf(callOut.record) = petIdentity

(***************************************************************************)
(* reset, self-cleaning cooldowns                                          *)
(***************************************************************************)
\* C31: right after resetAllPetData returns there is no pet record
\* (hasPetState is false) and no cooldown is active for any action id.
C31_ResetClearsRecordAndCooldowns ==
    op = "resetAllPetData" =>
        /\ ~hasPetState(store)
        /\ \A featureId \in FeatureIds : ~isCooldownActive(cooldowns, featureId, now)

\* C34: a getRemainingCooldown call removes the entry of its action id exactly
\* when that entry has expired, which is when it returns 0 for a stored entry;
\* an entry that has not expired stays as it was, and so does the entry of
\* every other action id.
C34_CleanupOnlyOfExpiredEntry ==
    [][op' = "getRemainingCooldown" =>
          LET featureId == callIn'.featureId
          IN  /\ \A other \in FeatureIds \ {featureId} :
                     /\ other \in DOMAIN cooldowns <=> other \in DOMAIN cooldowns'
                     /\ other \in DOMAIN cooldowns => cooldowns'[other] = cooldowns[other]
              /\ featureId \in DOMAIN cooldowns =>
                     /\ cooldowns[featureId] > now =>
                            /\ featureId \in DOMAIN cooldowns'
                            /\ cooldowns'[featureId] = cooldowns[featureId]
                            /\ callOut'.remaining > 0
                     /\ cooldowns[featureId] <= now =>
                            /\ featureId \notin DOMAIN cooldowns'
                            /\ callOut'.remaining = 0
              /\ featureId \notin DOMAIN cooldowns => cooldowns' = cooldowns]_vars

\* an expired comedy entry has just been removed while the other entry stays
C34_Witness ==
    /\ op = "getRemainingCooldown"
    /\ callIn.featureId = "comedy"
    /\ callOut.remaining = 0
    /\ "comedy" \in DOMAIN cooldownSet
    /\ "comedy" \notin DOMAIN cooldowns
    /\ "schadenfreude" \in DOMAIN cooldowns
    /\ cooldowns["schadenfreude"] > now

\* C33: checkEvolution given an undefined ageSeconds or interactionCount returns
\* shouldEvolve false, nextStage and reason null and the stage it was given,
\* whatever the other value is.
C33_UndefinedInputNeverEvolves ==
    (EvoCalled /\ (~evoIn.ageSeconds.def \/ ~evoIn.interactionCount.def)) =>
        evoOut = [shouldEvolve |-> FALSE, nextStage |-> "null", reason |-> "null",
                  currentStage |-> EvoInStageName]

\* a baby without an age whose interactions are past the threshold stays a baby
C33_Witness ==
    /\ EvoCalled
    /\ evoIn.evolutionStage = NumStage(1)
    /\ evoIn.ageSeconds = Undefined
    /\ evoIn.interactionCount = Some(BabyToAdultInteractions)
    /\ ~evoOut.shouldEvolve
    /\ evoOut.currentStage = "baby"

(***************************************************************************)
(* the age of the pet                                                      *)
(***************************************************************************)
\* the stored age and creation time, read off the stored text
PersistedAge ==
    IF UnusableStore(store) \/ "ageSeconds" \notin DOMAIN store.json.obj THEN 0
    ELSE store.json.obj.ageSeconds.num \div 2

PersistedCreatedAt ==
    IF UnusableStore(store) \/ "createdAt" \notin DOMAIN store.json.obj THEN now
    ELSE store.json.obj.createdAt.num \div 2

\* C35: without a reset ageSeconds never decreases; a page load sets it to the
\* larger of the stored age and the whole seconds elapsed since createdAt, a
\* tick adds one, and every step leaves the age just reached in the store.
C35_AgeNeverDecreases ==
    [][/\ ageSeconds' >= ageSeconds
       /\ op' = "AgeMount" =>
              ageSeconds' = Max(PersistedAge, (now - PersistedCreatedAt) \div 1000)
       /\ op' = "AgeInterval" => ageSeconds' = ageSeconds + 1
       /\ op' \in {"AgeMount", "AgeInterval"} => PersistedAge' = ageSeconds']_vars

\* a page load found more seconds elapsed than stored, after ticks and time away
C35_Witness ==
    /\ op = "AgeMount"
    /\ ageSeconds = 6
    /\ NumberOrZero(Get(callIn.stored.json.obj, "ageSeconds")) = 3
    /\ PersistedAge = 6

(***************************************************************************)
(* evolution events                                                        *)
(***************************************************************************)
\* C36: the evolution events of a step each start from baby or adult, never
\* from legendary; each leaves the pet one stage higher, so a second event of
\* the step starts where the first ended and the stage after the last event is
\* its starting stage plus one; the stage is always 1, 2 or 3.
C36_EvolutionOneStageAtATime ==
    /\ petState.evolutionStage \in 1..3
    /\ \A i \in DOMAIN fires :
           /\ fires[i] \in {1, 2}
           /\ i < Len(fires) => fires[i + 1] = fires[i] + 1
    /\ Len(fires) > 0 => petState.evolutionStage = fires[Len(fires)] + 1

\* a baby past the adult-to-legendary threshold became adult, then legendary
C36_Witness ==
    /\ fires = <<1, 2>>
    /\ petState.evolutionStage = 3
    /\ (ageSeconds >= AdultToLegendaryAge \/ interactionCount >= AdultToLegendaryInteractions)

\* automatic evolution is enabled and the threshold of the current stage is met
EvolutionDue ==
    /\ ~manualEvolutionOverride
    /\ petState.evolutionStage \in {1, 2}
    /\ RefDue(petState.evolutionStage, ageSeconds, interactionCount)

C38_OverlappingCheerUpsTakeEffectOnce ==
    /\ [](Len(pendingCheer) <= 1)
    /\ [][(op' = "SettleCheerUp" /\ ~cheerResult'.isNull /\ CooldownActive) =>
              /\ moodLevel' = moodLevel
              /\ cooldowns' = cooldowns]_vars

\* C39: when findWorsePerformer resolves to a comparison, the mood level
\* becomes min(5, level + 1) for the level the pet has at that moment.
C39_BoostRelativeToMoodAtSettle ==
    [][(op' = "SettleCheerUp" /\ ~cheerResult'.isNull) =>
          moodLevel' = Min(5, moodLevel + 1)]_vars

\* C40: when a cheer-up or a joke that was started before handleReset settles
\* right after it, no cooldown becomes active and the mood stays at level 3,
\* neutral, in memory and in the store.
C40_ResetNotUndoneByInFlightAction ==
    [][(op = "HandleReset" /\ op' \in {"SettleCheerUp", "SettleJoke"}) =>
          /\ \A featureId \in FeatureIds : ~isCooldownActive(cooldowns', featureId, now')
          /\ moodLevel' = 3
          /\ petState'.mood = "neutral"
          /\ store' # NoRecord => (store'.moodLevel = 3 /\ store'.moodState = "neutral")]_vars

(***************************************************************************)
(* price fetches that outlive their scope                                  *)
(***************************************************************************)
\* C32: a price fetch that settles after the effect run that started it has
\* been cleaned up, or after the unmount, changes neither priceData,
\* priceHistory nor loading; and once no fetch is in flight, priceData and the
\* newest priceHistory entry are of the selected coin.
C32_EndedScopeFetchUpdatesNothing ==
    /\ [][(/\ op' = "PriceSettles"
           /\ (callIn'.scope # cryptoUpdates.scope \/ ~cryptoUpdates.mounted))
          => /\ cryptoUpdates'.priceData = cryptoUpdates.priceData
             /\ cryptoUpdates'.priceHistory = cryptoUpdates.priceHistory
             /\ cryptoUpdates'.loading = cryptoUpdates.loading]_vars
    /\ []((cryptoUpdates.pending = <<>> /\ cryptoUpdates.priceData.has) =>
              /\ cryptoUpdates.priceData.coinId = cryptoUpdates.coinId
              /\ cryptoUpdates.priceHistory[Len(cryptoUpdates.priceHistory)].coinId
                     = cryptoUpdates.coinId)
====
